---- MODULE Spec2Model ----
(***************************************************************************)
(* Retrieval & Decision Engine of vnpt-track2.                             *)
(*                                                                         *)
(*   Spec        the query router, Agent.process_query                     *)
(*               (src/src/brain/agent/agent.py) with the guardrail,        *)
(*               the classification service and the math task it reaches   *)
(*   SpecTask    MathTask / ReadingTask / RAGTask .invoke called directly  *)
(*   SpecSafety  SafetyGuard.check and GuardrailService.invoke             *)
(*   SpecFusion  RRFFusion.fuse and HybridRetriever._rrf_fusion            *)
(*                                                                         *)
(* Numbers: similarities and thresholds are in hundredths (0.7 is 70),     *)
(* vector components in tenths, fused scores are exact rationals scaled    *)
(* by Scale.  Floating-point rounding is not modelled.                     *)
(***************************************************************************)
EXTENDS Integers, Sequences, FiniteSets, TLC

VARIABLES
    \* ---- Agent.process_query (one query at a time) ----
    pc,                \* position of the query inside process_query
    options,           \* keys of the options dict of the query
    guardrail_result,  \* (is_safe, guardrail_answer) of layer 1
    classification,    \* dict returned by QueryClassificationService.invoke
    result,            \* what process_query gave back: a return or a raise
    calls,             \* capability invocations made for the query, in order
    \* ---- a task's invoke called directly ----
    task,              \* [name, options, generated, context, result]
    \* ---- a safety check called directly ----
    safety,            \* [impl, bank, embedding, threshold, outcome, is_safe, llm]
    \* ---- a fusion called directly ----
    fusion,            \* [impl, bm25, vector, w_bm25, w_vector, top_k, fused]
    \* ---- a TemporalFilter method called directly ----
    temporal,          \* [op, text, chunks, year, result]
    \* ---- DomainMapper.merge_with_entity_categories called directly ----
    merge,             \* [called, domain_categories, entity_categories, outcome, result]
    \* ---- a retrieval: the store, the query and what came back ----
    retrieval,         \* [impl, category, window, dense, filter, year, embedding, ...]
    \* ---- InferencePipeline.run_inference on one batch ----
    batch,             \* [pool, will, state, answer, timed_out, outcome, predictions]
    \* ---- one call of a function wrapped by retry_async ----
    retry,             \* [failures, error, attempt, calls, sleeps, outcome]
    \* ---- construction of a serving component and the queries it answers ----
    startup,           \* [component, bank_file, constructed, bank, answered]
    \* ---- a SubmissionManager and its two files ----
    submission,        \* [records, daily_submissions, today, op, outcome, ...]
    \* ---- a FAISSIndex saved to disk and loaded again ----
    dense_index,
    \* ---- TextCleaner.chunk_text on one text ----
    chunking

vars == <<pc, options, guardrail_result, classification, result, calls,
          task, safety, fusion, temporal, merge, retrieval, batch, retry, startup,
          submission, dense_index, chunking>>

\* the variables of the submission file, the index files and the chunker
lateVars == <<submission, dense_index, chunking>>

\* the variables of the calls modelled further down; the router and the
\* checks above leave them alone
auxVars == <<temporal, merge, retrieval, batch, retry, startup>>

routerVars == <<pc, options, guardrail_result, classification, result, calls>>

-----------------------------------------------------------------------------
(* Bounds of the model *)

\* number of distinct option letters a question may present
MaxOptions == 3
\* largest dimension of an embedding vector
MaxDim == 2
\* number of chunks in the store; a result list holds each at most once
NumChunks == 3
\* largest fusion weight (weights are positive integers; only ratios matter)
MaxWeight == 3

-----------------------------------------------------------------------------
(* Option keys and answers *)

Alphabet == <<"A", "B", "C", "D", "E", "F">>

Letters == {Alphabet[i] : i \in 1..MaxOptions}

LetterIndex(l) == CHOOSE i \in 1..Len(Alphabet) : Alphabet[i] = l

\* sorted(options.keys())[0]
SortedFirst(opts) ==
    CHOOSE l \in opts : \A m \in opts : LetterIndex(l) <= LetterIndex(m)

OptionSets == (SUBSET Letters) \ {{}}

-----------------------------------------------------------------------------
(* What the language-model capability can give back *)

\* A dict without the key, and a value that is not a string (an int)
Missing == "<missing>"
NonString == "<int>"

\* values the "answer" field of a JSON object may carry
AnswerValues == Letters \cup {"a", "None", NonString}

\* str.upper() (str.strip() changes none of the values above)
Upper(s) == IF s = "a" THEN "A" ELSE IF s = "None" THEN "NONE" ELSE s

\* generate() for an answering prompt: it raises, or returns free text.  A
\* text is described by what the parsers look at: whether re.search finds a
\* {...} span ("nojson" if not), whether json.loads accepts it ("invalid" if
\* not), the object's "answer" field, and the option letters that occur
\* quoted in the text outside the JSON object.
AnswerTexts ==
    {[kind |-> "text", json |-> "object", data |-> [answer |-> a], quoted |-> q] :
        a \in AnswerValues \cup {Missing}, q \in SUBSET Letters}
    \cup
    {[kind |-> "text", json |-> j, data |-> [answer |-> Missing], quoted |-> q] :
        j \in {"nojson", "invalid"}, q \in SUBSET Letters}

GenException ==
    [kind |-> "exception", json |-> "nojson", data |-> [answer |-> Missing], quoted |-> {}]

GenOutcomes == AnswerTexts \cup {GenException}

\* the letters that occur quoted in text.upper(): a JSON string value is
\* itself written between double quotes
QuotedLetters(text) ==
    text.quoted \cup
    (IF text.json = "object" /\ text.data.answer \in Letters \cup {"a"}
     THEN {Upper(text.data.answer)} ELSE {})

\* generate() for the classification prompt
Categories == {"MATH", "READING", "RAG", "SAFETY"}

ClassTexts ==
    {[kind |-> "text", json |-> "object", data |-> [category |-> c, domain |-> d]] :
        c \in Categories \cup {"OTHER", Missing}, d \in {"given", Missing}}
    \cup
    {[kind |-> "text", json |-> j, data |-> [category |-> Missing, domain |-> Missing]] :
        j \in {"nojson", "invalid"}}

ClassException ==
    [kind |-> "exception", json |-> "nojson",
     data |-> [category |-> Missing, domain |-> Missing]]

ClassOutcomes == ClassTexts \cup {ClassException}

-----------------------------------------------------------------------------
(* src/src/brain/utils/json_parser.py *)

\* parse_json_from_llm_response: the parsed object, or the default when no
\* {...} span is found or json.loads rejects it
parse_json_from_llm_response(text, default) ==
    IF text.json = "object" THEN text.data ELSE default

\* first option letter, in sorted order, that occurs quoted in the text;
\* Missing when there is none
FirstQuoted(text, opts) ==
    LET found == QuotedLetters(text) \cap opts
    IN  IF found = {} THEN Missing ELSE SortedFirst(found)

\* extract_answer_from_response
extract_answer_from_response(text, opts) ==
    LET parsed == parse_json_from_llm_response(text, [answer |-> Missing])
        answer == Upper(parsed.answer)      \* str(parsed["answer"]).upper().strip()
    IN  IF parsed.answer # Missing /\ answer \in opts
        THEN answer
        ELSE IF FirstQuoted(text, opts) # Missing
             THEN FirstQuoted(text, opts)
             ELSE SortedFirst(opts)

-----------------------------------------------------------------------------
(* src/src/brain/agent/tasks: the three answering tasks *)

\* What a task gives back when its try block raises
TaskErrorAnswer == "A"

\* MathTask.invoke, from the return of generate() on
MathTask_invoke(gen, opts) ==
    IF gen.kind = "exception"
    THEN TaskErrorAnswer
    ELSE extract_answer_from_response(gen, opts)

\* RAGTask._parse_json_answer and ReadingTask._parse_json_answer (the same
\* text in both files): data["answer"].upper() raises on a value that is not
\* a string, json.loads raises on invalid JSON; both are caught and fall
\* through to the quoted-letter search
_parse_json_answer(text, opts) ==
    LET json_ok == text.json = "object"
                   /\ text.data.answer # Missing
                   /\ text.data.answer # NonString
                   /\ Upper(text.data.answer) \in opts
    IN  IF json_ok
        THEN Upper(text.data.answer)
        ELSE IF FirstQuoted(text, opts) # Missing
             THEN FirstQuoted(text, opts)
             ELSE SortedFirst(opts)

\* ReadingTask.invoke
ReadingTask_invoke(gen, opts) ==
    IF gen.kind = "exception"
    THEN TaskErrorAnswer
    ELSE _parse_json_answer(gen, opts)

\* What retriever.retrieve can do inside RAGTask.invoke
RetrievalOutcomes == {"no_retriever", "results", "empty", "exception"}

\* RAGTask.invoke: the context handed to the prompt is non-empty only when
\* the retriever returned results; a retrieval exception is caught
RAGTask_context(retrieved) == retrieved = "results"

RAGTask_invoke(gen, opts) ==
    IF gen.kind = "exception"
    THEN TaskErrorAnswer
    ELSE _parse_json_answer(gen, opts)

-----------------------------------------------------------------------------
(* Vectors: sequences of integers, components in tenths *)

Components == {0, 6, 7, 8, 10}

VectorsOfDim(d) == [1..d -> Components]

RECURSIVE SumTo(_, _)
SumTo(f, n) == IF n = 0 THEN 0 ELSE f[n] + SumTo(f, n - 1)

\* np.dot of two vectors of the same length, in hundredths
Dot(a, b) == SumTo([i \in 1..Len(a) |-> a[i] * b[i]], Len(a))

SqNorm(a) == Dot(a, a)

\* rows of a bank are unit vectors (squared norm 100 in tenths)
UnitVectors(d) == {v \in VectorsOfDim(d) : SqNorm(v) = 100}

\* a safety bank: one or two unit rows of one dimension
SafetyBanks ==
    UNION {[1..n -> UnitVectors(d)] : n \in 1..2, d \in 1..MaxDim}

QueryVectors == UNION {VectorsOfDim(d) : d \in 1..MaxDim}

\* get_embedding(): raises, returns nothing (None or []), or returns a vector
EmbeddingOutcomes ==
    {[kind |-> "exception", vec |-> <<>>], [kind |-> "empty", vec |-> <<>>]}
    \cup {[kind |-> "vector", vec |-> v] : v \in QueryVectors}

RECURSIVE MaxOver(_, _)
MaxOver(f, n) ==
    IF n = 1 THEN f[1]
    ELSE LET m == MaxOver(f, n - 1) IN IF f[n] > m THEN f[n] ELSE m

-----------------------------------------------------------------------------
(* Python values the guardrail hands to the router *)

PyDict(answer) == [type |-> "dict", ok |-> FALSE, value |-> answer]
PyStr(text)    == [type |-> "str", ok |-> FALSE, value |-> text]
PyTuple(ok, v) == [type |-> "tuple", ok |-> ok, value |-> v]

-----------------------------------------------------------------------------
(* src/src/brain/agent/guardrail.py: GuardrailService *)

\* self.safety_threshold, in hundredths
safety_threshold == 70

\* invoke, lines 66-79: np.dot(self.safety_index, embedding) raises a
\* ValueError when the lengths differ, and invoke re-raises it (lines
\* 101-103); otherwise the query is unsafe iff max_score > threshold
GuardrailService_check(bank, embedding) ==
    IF Len(embedding) # Len(bank[1])
    THEN "raise"
    ELSE LET scores    == [i \in 1..Len(bank) |-> Dot(bank[i], embedding)]
             max_score == MaxOver(scores, Len(bank))
         IN  IF max_score > safety_threshold THEN "unsafe" ELSE "safe"

\* _parse_json_answer_robust: always a tuple (found, text)
GuardrailService_parse_json_answer_robust(text) ==
    IF text.json = "nojson" THEN PyTuple(FALSE, "No JSON found in response")
    ELSE IF text.json = "invalid" THEN PyTuple(FALSE, "JSONDecodeError")
    ELSE IF text.data.answer = Missing THEN PyTuple(FALSE, "'answer'")
    ELSE PyTuple(TRUE, text.data.answer)

\* invoke, lines 82-98: the second component of the pair invoke returns
\* once generate() has returned or raised
GuardrailService_answer(gen) ==
    IF gen.kind = "exception"
    THEN PyStr("Error parsing JSON answer")
    ELSE GuardrailService_parse_json_answer_robust(gen)

-----------------------------------------------------------------------------
(* src/src/runtime/safety/guard.py: SafetyGuard *)

\* SAFETY_THRESHOLD of src/src/core/constants.py, in hundredths
SAFETY_THRESHOLD == 85

\* thresholds a SafetyGuard is constructed with (the default and a tuned one)
GuardThresholds == {60, SAFETY_THRESHOLD}

\* self.safety_vectors is None: no bank was loaded
None == <<>>

\* The squared cosine of two vectors with non-negative components, as a
\* fraction <<numerator, denominator>>.  The code divides each vector by
\* its norm + 1e-10, so a zero vector has similarity 0; the 1e-10 is
\* otherwise left out.
Cos2(q, b) ==
    LET n == SqNorm(q) * SqNorm(b)
    IN  IF n = 0 THEN <<0, 1>> ELSE <<Dot(q, b) * Dot(q, b), n>>

FracLess(x, y) == x[1] * y[2] < y[1] * x[2]

RECURSIVE MaxFrac(_, _)
MaxFrac(f, n) ==
    IF n = 1 THEN f[1]
    ELSE LET m == MaxFrac(f, n - 1) IN IF FracLess(m, f[n]) THEN f[n] ELSE m

\* max_similarity = float(np.max(similarities)), squared
max_similarity2(bank, q) ==
    MaxFrac([i \in 1..Len(bank) |-> Cos2(q, bank[i])], Len(bank))

\* is_safe = max_similarity < self.threshold
SafetyGuard_is_safe(bank, q, threshold) ==
    LET m == max_similarity2(bank, q)
    IN  10000 * m[1] < threshold * threshold * m[2]

\* SafetyGuard.check: [outcome, is_safe]
SafetyGuard_check(bank, emb, threshold) ==
    IF emb.kind = "exception"
    THEN [outcome |-> "raise", is_safe |-> FALSE]      \* embed() is not guarded
    ELSE IF emb.kind = "empty"
    THEN [outcome |-> "return", is_safe |-> TRUE]
    ELSE IF bank = None
    THEN [outcome |-> "return", is_safe |-> TRUE]
    ELSE IF Len(emb.vec) # Len(bank[1])
    THEN [outcome |-> "raise", is_safe |-> FALSE]      \* np.dot: ValueError
    ELSE [outcome |-> "return",
          is_safe |-> SafetyGuard_is_safe(bank, emb.vec, threshold)]

-----------------------------------------------------------------------------
(* src/src/brain/agent/query_classification.py *)

DefaultClassification == [category |-> "RAG", domain |-> "General Knowledge"]

\* _parse_json_answer_robust: the parsed object or the default; a missing
\* domain is filled in from the category, a missing category stays missing
QueryClassification_parse_json_answer_robust(text) ==
    LET d == parse_json_from_llm_response(text, DefaultClassification)
        category == IF d.category = Missing THEN "RAG" ELSE d.category
    IN  IF d.domain # Missing THEN d
        ELSE IF category = "MATH" THEN [d EXCEPT !.domain = "Math"]
        ELSE IF category = "RAG" THEN [d EXCEPT !.domain = "General Knowledge"]
        ELSE d

\* QueryClassificationService.invoke
QueryClassificationService_invoke(c) ==
    IF c.kind = "exception"
    THEN DefaultClassification
    ELSE QueryClassification_parse_json_answer_robust(c)

-----------------------------------------------------------------------------
(* src/src/brain/agent/agent.py: Agent *)

\* the bank GuardrailService.__init__ loaded: np.load(safety_index_path)
safety_index == << <<10, 0>>, <<0, 10>> >>

NoResult == [kind |-> "none", answer |-> "", via |-> ""]
Return(answer, via) == [kind |-> "return", answer |-> answer, via |-> via]
Raise(error) == [kind |-> "raise", answer |-> "", via |-> error]

NoClassification == [category |-> Missing, domain |-> Missing]

\* the timeout handler with the fallback letter hard-coded
TimeoutFallbackHardcoded(opts) == "A"

\* process_query, lines 58-62: what the TimeoutError handler returns
TimeoutFallback(opts) == IF opts # {} THEN SortedFirst(opts) ELSE "A"

\* _process_query_internal, lines 103-116, once the guardrail said unsafe:
\* guardrail_answer.get('answer') needs a dict; on anything else the
\* AttributeError leaves through lines 178-180 and 63-65
Agent_unsafe_result(guardrail_answer, opts) ==
    IF guardrail_answer.type # "dict"
    THEN Raise("AttributeError")
    ELSE IF guardrail_answer.value \notin {Missing, "None", ""}
    THEN Return(guardrail_answer.value, "guardrail")
    ELSE Return(SortedFirst(opts), "guardrail_fallback")

\* _process_query_internal, lines 126-173: where the category leads.  The
\* calls of lines 129, 150 and 162 pass verbose=, a keyword the callee's
\* signature does not have, so the call itself raises a TypeError
Agent_dispatch(cls) ==
    IF cls.category = Missing THEN "KeyError"          \* classification['category']
    ELSE IF cls.category = "SAFETY" THEN "TypeError"   \* guardrail.invoke(verbose=)
    ELSE IF cls.category = "MATH" THEN "math"
    ELSE IF cls.category = "READING" THEN "TypeError"  \* reading_task.invoke(verbose=)
    ELSE IF cls.category = "RAG" THEN "TypeError"      \* rag_task.invoke(verbose=)
    ELSE "default"

\* process_query is called: lines 77-86, up to the await of get_embedding
ProcessQuery ==
    /\ pc \in {"idle", "done"}
    /\ \E opts \in OptionSets : options' = opts
    /\ pc' = "embedding"
    /\ guardrail_result' = [is_safe |-> TRUE, answer |-> PyDict(Missing)]
    /\ classification' = NoClassification
    /\ result' = NoResult
    /\ calls' = <<"get_embedding">>
    /\ UNCHANGED <<lateVars, auxVars, task, safety, fusion>>

\* get_embedding returned or raised: lines 88-100, and for a safe query on
\* to the await of the classification (line 119); for an unsafe one the
\* guardrail awaits generate() (guardrail.py line 89)
EmbeddingDone ==
    /\ pc = "embedding"
    /\ \E e \in EmbeddingOutcomes :
        LET chk == IF e.kind = "vector"
                   THEN GuardrailService_check(safety_index, e.vec)
                   ELSE "skip"
        IN  IF chk = "unsafe"
            THEN /\ pc' = "refusing"
                 /\ calls' = Append(calls, "generate:safety")
                 /\ guardrail_result' = [is_safe |-> FALSE, answer |-> PyDict(Missing)]
            ELSE /\ pc' = "classifying"
                 /\ calls' = Append(calls, "generate:classification")
                 /\ guardrail_result' =
                       [is_safe |-> TRUE,
                        answer |-> IF chk = "safe" THEN PyStr("No checks performed")
                                   ELSE PyDict(Missing)]
    /\ UNCHANGED <<lateVars, auxVars, options, classification, result, task, safety, fusion>>

\* the guardrail's generate() returned or raised: guardrail.py lines 93-98,
\* then agent.py lines 103-116
RefusalDone ==
    /\ pc = "refusing"
    /\ \E g \in GenOutcomes :
        LET answer == GuardrailService_answer(g)
        IN  /\ guardrail_result' = [is_safe |-> FALSE, answer |-> answer]
            /\ result' = Agent_unsafe_result(answer, options)
    /\ pc' = "done"
    /\ UNCHANGED <<lateVars, auxVars, options, classification, calls, task, safety, fusion>>

\* the classification's generate() returned or raised: lines 119-173 up to
\* the next await, which only the MATH branch reaches
ClassificationDone ==
    /\ pc = "classifying"
    /\ \E c \in ClassOutcomes :
        LET cls == QueryClassificationService_invoke(c)
            to  == Agent_dispatch(cls)
        IN  /\ classification' = cls
            /\ IF to = "math"
               THEN /\ pc' = "math"
                    /\ calls' = Append(calls, "generate:math")
                    /\ result' = result
               ELSE /\ pc' = "done"
                    /\ calls' = calls
                    /\ result' = IF to = "default" THEN Return("A", "default")
                                 ELSE Raise(to)
    /\ UNCHANGED <<lateVars, auxVars, options, guardrail_result, task, safety, fusion>>

\* the math task's generate() returned or raised: math.py lines 64-76
MathDone ==
    /\ pc = "math"
    /\ \E g \in GenOutcomes :
        result' = Return(MathTask_invoke(g, options), "task")
    /\ pc' = "done"
    /\ UNCHANGED <<lateVars, auxVars, options, guardrail_result, classification, calls, task, safety, fusion>>

\* asyncio.wait_for gives up while the query waits at one of its awaits:
\* the inner task is cancelled and lines 58-62 return the fallback
Timeout ==
    /\ pc \in {"embedding", "refusing", "classifying", "math"}
    /\ result' = Return(TimeoutFallback(options), "timeout")
    /\ pc' = "done"
    /\ UNCHANGED <<lateVars, auxVars, options, guardrail_result, classification, calls, task, safety, fusion>>

-----------------------------------------------------------------------------
(* Initial state and the router's specification *)

NoTask == [name |-> "none", options |-> {}, generated |-> GenException,
           context |-> FALSE, answer |-> ""]

NoSafety == [impl |-> "none", bank |-> None, embedding |-> [kind |-> "empty", vec |-> <<>>],
             threshold |-> 0, outcome |-> "none", is_safe |-> TRUE,
             answer |-> PyStr("")]

NoFusion == [impl |-> "none", bm25 |-> <<>>, vector |-> <<>>, w_bm25 |-> 1,
             w_vector |-> 1, top_k |-> 0, fused |-> <<>>]

\* Optional[T]: None is the empty sequence, a value x is <<x>>
Some(x) == <<x>>

NoTemporal == [op |-> "none", text |-> <<>>, chunks |-> <<>>, year |-> None,
               result |-> <<>>]

NoMerge == [called |-> FALSE, domain_categories |-> None, entity_categories |-> None,
            outcome |-> "none", result |-> None]

NoRetrieval ==
    [impl |-> "none", category |-> <<>>, window |-> <<>>, dense |-> <<>>,
     embeddings_kept |-> TRUE, filter |-> None, year |-> None,
     embedding |-> "vector", top_k |-> 0, outcome |-> "none",
     bm25_results |-> <<>>, faiss_results |-> <<>>, results |-> <<>>,
     via_task |-> FALSE, options |-> {}, context |-> FALSE,
     retriever_outcome |-> "none", generated |-> "none", answer |-> "",
     hybrid |-> "ok"]

\* run_inference before the call: the questions, the semaphore size, what
\* agent.process_query will do for each question, each process_one task's
\* position, what process_query gave it, and what run_inference gave back
NoBatch ==
    [state |-> "none", num_choices |-> 0, questions |-> <<>>, batch_size |-> 0,
     agent |-> <<>>, pos |-> <<>>, answers |-> <<>>, predictions |-> <<>>,
     error |-> ""]

\* a decorated call before it starts: the loop index, the calls and sleeps
\* made so far, the backoff of each sleep (tenths of a second), and what
\* each call of the wrapped function will do
NoRetry ==
    [state |-> "none", plan |-> <<>>, attempt |-> 0, attempts |-> 0,
     sleeps |-> 0, backoffs |-> <<>>, error |-> "", raised |-> ""]

\* before a serving component is constructed: the bank file on disk (None
\* when it is missing), whether the safety queries file exists, the bank
\* the component holds, and the query it then handles
NoStartup ==
    [component |-> "none", state |-> "none", bank_file |-> None,
     queries_file |-> FALSE, bank |-> None, error |-> "",
     answered |-> FALSE, embedding |-> [kind |-> "empty", vec |-> <<>>],
     verdict |-> "none"]

\* nothing but the router, a task, a safety check or a fusion is in use
\* a SubmissionManager before any call: the rows of the CSV file, the
\* metadata's daily_submissions, the day datetime.now() gives, and the last
\* call with what the files held before it
NoSubmission ==
    [records |-> <<>>, daily_submissions |-> <<>>, today |-> 1, next_qid |-> 1,
     answer_value |-> "B", ops |-> 0, op |-> "none", outcome |-> "none", predictions |-> <<>>,
     before_records |-> <<>>, before_count |-> 0]

NoDenseIndex ==
    [state |-> "none", dir |-> "", name |-> <<>>, dense |-> <<>>, files |-> {},
     embeddings |-> FALSE, via_retriever |-> FALSE, category |-> <<>>,
     valid_indices |-> {}, top_k |-> 0, outcome |-> "none", results |-> <<>>]

NoChunking ==
    [state |-> "none", text_len |-> 0, breaks |-> {}, chunk_size |-> 1,
     overlap |-> 0, start |-> 0, prev_start |-> 0, visited |-> {},
     appended |-> 0]

LateIdle ==
    /\ submission = NoSubmission
    /\ dense_index = NoDenseIndex
    /\ chunking = NoChunking

AuxIdle ==
    /\ temporal = NoTemporal
    /\ merge = NoMerge
    /\ retrieval = NoRetrieval
    /\ batch = NoBatch
    /\ retry = NoRetry
    /\ startup = NoStartup

RouterIdle ==
    /\ pc = "idle"
    /\ options = {}
    /\ guardrail_result = [is_safe |-> TRUE, answer |-> PyDict(Missing)]
    /\ classification = NoClassification
    /\ result = NoResult
    /\ calls = <<>>

Init ==
    /\ RouterIdle
    /\ AuxIdle
    /\ LateIdle
    /\ task = NoTask
    /\ safety = NoSafety
    /\ fusion = NoFusion

Next ==
    \/ ProcessQuery
    \/ EmbeddingDone
    \/ RefusalDone
    \/ ClassificationDone
    \/ MathDone
    \/ Timeout

Spec == Init /\ [][Next]_vars

-----------------------------------------------------------------------------
(* The answering tasks called directly, with the signature they declare *)

\* a call about to be made: the option set and what generate() will do
InitTask ==
    /\ RouterIdle
    /\ AuxIdle
    /\ LateIdle
    /\ \E opts \in OptionSets, g \in GenOutcomes :
          task = [NoTask EXCEPT !.options = opts, !.generated = g]
    /\ safety = NoSafety
    /\ fusion = NoFusion

TaskDone(name, context, answer) ==
    /\ task.name = "none"
    /\ task' = [task EXCEPT !.name = name, !.context = context, !.answer = answer]
    /\ UNCHANGED <<lateVars, auxVars, routerVars, safety, fusion>>

\* MathTask.invoke(query, domain, options)
MathInvoke ==
    TaskDone("math", FALSE, MathTask_invoke(task.generated, task.options))

\* ReadingTask.invoke(query, options)
ReadingInvoke ==
    TaskDone("reading", FALSE, ReadingTask_invoke(task.generated, task.options))

\* RAGTask.invoke(query, domain, options, temporal_constraint, key_entities)
RAGInvoke ==
    \E r \in RetrievalOutcomes :
        TaskDone("rag", RAGTask_context(r), RAGTask_invoke(task.generated, task.options))

NextTask == MathInvoke \/ ReadingInvoke \/ RAGInvoke

SpecTask == InitTask /\ [][NextTask]_vars

-----------------------------------------------------------------------------
(* Claims about the router and the tasks *)

\* C1: process_query never raises past its own boundary: whatever the
\* embedding, classification and generation capabilities do, a finished
\* query has returned a dict whose answer is one of the presented option keys.
C1_NeverRaises ==
    pc = "done" => (result.kind = "return" /\ result.answer \in options)

\* C2: when the internal processing does not complete within the timeout,
\* process_query returns (does not raise) and the answer is the
\* lexicographically-first key of the presented options.
C2_TimeoutFallback ==
    result.via = "timeout" =>
        /\ pc = "done"
        /\ result.kind = "return"
        /\ result.answer \in options
        /\ \A m \in options : LetterIndex(result.answer) <= LetterIndex(m)

\* a query timed out although "A" is not among its options, after the
\* guardrail had already asked for a refusal answer
C2_Witness ==
    /\ result.via = "timeout"
    /\ "A" \notin options
    /\ Len(calls) = 2 /\ calls[2] = "generate:safety"

\* the refusal step yielded a valid option key
RefusalYieldsOption ==
    /\ ~guardrail_result.is_safe
    /\ guardrail_result.answer.type = "tuple"
    /\ guardrail_result.answer.ok
    /\ guardrail_result.answer.value \in options

\* C4: when the embedding check finds the query unsafe and the refusal
\* step yields a valid option key, the router returns that key directly and
\* the classification capability (and so every task) is never invoked.
C4_UnsafeShortCircuit ==
    (pc = "done" /\ RefusalYieldsOption) =>
        /\ result.kind = "return"
        /\ result.answer = guardrail_result.answer.value
        /\ \A i \in 1..Len(calls) : calls[i] \in {"get_embedding", "generate:safety"}

\* the part of C4 the code keeps: an unsafe query never reaches the classifier
C4_ClassifierSkipped ==
    ~guardrail_result.is_safe =>
        \A i \in 1..Len(calls) : calls[i] \in {"get_embedding", "generate:safety"}

\* the answer C3 asks of a task for a generation outcome and an option set
C3_Expected(gen, opts, answer) ==
    IF gen.kind = "text" /\ gen.json = "object" /\ gen.data.answer # Missing
       /\ Upper(gen.data.answer) \in opts
    THEN answer = Upper(gen.data.answer)
    ELSE IF gen.kind = "text" /\ QuotedLetters(gen) \cap opts # {}
    THEN answer \in QuotedLetters(gen) \cap opts
    ELSE /\ answer \in opts
         /\ \A m \in opts : LetterIndex(answer) <= LetterIndex(m)

\* C3: for the MATH, READING and RETRIEVAL tasks, any non-empty option set
\* and any outcome of the generation capability, invoke returns one key of
\* the options: the JSON answer when it is an option key, else an option
\* letter found quoted in the text, else the lexicographically-first key.
C3_TaskAnswer ==
    task.name # "none" =>
        /\ task.answer \in task.options
        /\ C3_Expected(task.generated, task.options, task.answer)

\* what the tasks do keep: whenever generate() returns text, the layered
\* fallback of C3 is followed
C3_TaskAnswerOnText ==
    (task.name # "none" /\ task.generated.kind = "text") =>
        /\ task.answer \in task.options
        /\ C3_Expected(task.generated, task.options, task.answer)

-----------------------------------------------------------------------------
(* The safety checks called directly *)

\* a check about to be made: the loaded bank (None when SafetyGuard was
\* given no vectors), what the embedding capability gives, the threshold
InitSafety ==
    /\ RouterIdle
    /\ AuxIdle
    /\ LateIdle
    /\ task = NoTask
    /\ \E bank \in SafetyBanks \cup {None}, e \in EmbeddingOutcomes, t \in GuardThresholds :
          safety = [NoSafety EXCEPT !.bank = bank, !.embedding = e, !.threshold = t]
    /\ fusion = NoFusion

\* SafetyGuard.check(query)
SafetyGuardCheck ==
    /\ safety.impl = "none"
    /\ LET r == SafetyGuard_check(safety.bank, safety.embedding, safety.threshold)
       IN  safety' = [safety EXCEPT !.impl = "SafetyGuard",
                                    !.outcome = r.outcome, !.is_safe = r.is_safe]
    /\ UNCHANGED <<lateVars, auxVars, routerVars, task, fusion>>

\* GuardrailService.invoke(user_input, embedding=<vector>, options): the
\* service exists only with a loaded bank, and its threshold is fixed
GuardrailInvoke ==
    /\ safety.impl = "none"
    /\ safety.bank # None
    /\ safety.embedding.kind = "vector"
    /\ safety.threshold = SAFETY_THRESHOLD
    /\ LET chk == GuardrailService_check(safety.bank, safety.embedding.vec)
       IN  \/ /\ chk = "raise"
              /\ safety' = [safety EXCEPT !.impl = "GuardrailService",
                                          !.threshold = safety_threshold,
                                          !.outcome = "raise", !.is_safe = FALSE]
           \/ /\ chk = "safe"
              /\ safety' = [safety EXCEPT !.impl = "GuardrailService",
                                          !.threshold = safety_threshold,
                                          !.outcome = "return", !.is_safe = TRUE,
                                          !.answer = PyStr("No checks performed")]
           \/ /\ chk = "unsafe"
              /\ \E g \in GenOutcomes :
                    safety' = [safety EXCEPT !.impl = "GuardrailService",
                                             !.threshold = safety_threshold,
                                             !.outcome = "return", !.is_safe = FALSE,
                                             !.answer = GuardrailService_answer(g)]
    /\ UNCHANGED <<lateVars, auxVars, routerVars, task, fusion>>

NextSafety == SafetyGuardCheck \/ GuardrailInvoke

SpecSafety == InitSafety /\ [][NextSafety]_vars

-----------------------------------------------------------------------------
(* Claims about the safety checks *)

\* a check was made on a vector against a loaded bank
Checked == safety.impl # "none" /\ safety.bank # None /\ safety.embedding.kind = "vector"

DimensionMismatch == Len(safety.embedding.vec) # Len(safety.bank[1])

\* C5: when the query embedding's dimension differs from the bank's, the
\* safety check returns is_safe = true and raises no exception.
C5_DimensionMismatchFailOpen ==
    (Checked /\ DimensionMismatch) => (safety.outcome = "return" /\ safety.is_safe)

\* how the similarity of the query to row i compares with the threshold:
\* -1 below, 0 equal, 1 above.  GuardrailService takes the raw dot product,
\* SafetyGuard the cosine (compared through its square; no component is
\* negative)
SimilarityVsThreshold(i) ==
    LET q == safety.embedding.vec
        b == safety.bank[i]
        t == safety.threshold
    IN  IF safety.impl = "GuardrailService"
        THEN IF Dot(b, q) < t THEN -1 ELSE IF Dot(b, q) = t THEN 0 ELSE 1
        ELSE IF SqNorm(q) * SqNorm(b) = 0
             THEN IF 0 < t THEN -1 ELSE 0
             ELSE LET l == 10000 * Dot(q, b) * Dot(q, b)
                      r == t * t * SqNorm(q) * SqNorm(b)
                  IN  IF l < r THEN -1 ELSE IF l = r THEN 0 ELSE 1

Rows == 1..Len(safety.bank)

MaxAtThreshold ==
    /\ \E i \in Rows : SimilarityVsThreshold(i) = 0
    /\ \A i \in Rows : SimilarityVsThreshold(i) <= 0

MaxAboveThreshold == \E i \in Rows : SimilarityVsThreshold(i) = 1

\* C6: in every safety-check implementation a maximum similarity exactly
\* equal to the threshold is classified safe, and one strictly above the
\* threshold is classified unsafe.
C6_ThresholdBoundary ==
    (Checked /\ safety.outcome = "return") =>
        /\ MaxAtThreshold => safety.is_safe
        /\ MaxAboveThreshold => ~safety.is_safe

\* the part every implementation keeps: above the threshold is unsafe,
\* below it is safe; at the threshold only GuardrailService says safe
C6_AwayFromBoundary ==
    (Checked /\ safety.outcome = "return") =>
        /\ MaxAboveThreshold => ~safety.is_safe
        /\ (\A i \in Rows : SimilarityVsThreshold(i) = -1) => safety.is_safe
        /\ (MaxAtThreshold /\ safety.impl = "GuardrailService") => safety.is_safe

-----------------------------------------------------------------------------
(* Reciprocal Rank Fusion: src/src/runtime/rag/fusion.py (RRFFusion) and   *)
(* src/src/brain/rag/retriever.py (HybridRetriever._rrf_fusion)            *)

Chunks == 1..NumChunks

\* a ranked list: chunk ids, best first, none twice
RankedLists ==
    {l \in UNION {[1..n -> Chunks] : n \in 0..NumChunks} :
        \A i, j \in DOMAIN l : i # j => l[i] # l[j]}

Weights == 1..MaxWeight

InList(l, c) == \E i \in DOMAIN l : l[i] = c

\* 1-indexed position of c in l
Pos(l, c) == CHOOSE i \in DOMAIN l : l[i] = c

\* the RRF constant: RRFFusion(k=60) and HybridRetriever(rrf_k=60)
RRF_K == 60

RECURSIVE Gcd(_, _)
Gcd(a, b) == IF b = 0 THEN a ELSE Gcd(b, a % b)

Lcm(a, b) == (a \div Gcd(a, b)) * b

RECURSIVE LcmUpTo(_)
LcmUpTo(r) == IF r = 1 THEN RRF_K + 1 ELSE Lcm(LcmUpTo(r - 1), RRF_K + r)

\* scores are kept as integers: the rational score times Scale, which every
\* k + rank divides (ranks go up to NumChunks + 1, the rank fusion.py gives
\* to a chunk that a full list lacks)
Scale == LcmUpTo(NumChunks + 1)

\* the contribution with the reciprocal dropped: weight * (k + rank)
ContributionNoReciprocal(w, rank) == w * (RRF_K + rank)

\* weight * (1.0 / (k + rank))
Contribution(w, rank) == w * (Scale \div (RRF_K + rank))

\* sorted(items, key=score, reverse=True): Python's sort is stable, so
\* entries of equal score keep the order they had in items
RECURSIVE InsertDesc(_, _)
InsertDesc(sorted, e) ==
    IF sorted = <<>> THEN <<e>>
    ELSE IF Head(sorted).score >= e.score
         THEN <<Head(sorted)>> \o InsertDesc(Tail(sorted), e)
         ELSE <<e>> \o sorted

RECURSIVE StableSortDesc(_)
StableSortDesc(items) ==
    IF items = <<>> THEN <<>>
    ELSE InsertDesc(StableSortDesc(SubSeq(items, 1, Len(items) - 1)), items[Len(items)])

\* ---- HybridRetriever._rrf_fusion ----

\* the keys of the scores dict in insertion order: the BM25 ids as listed,
\* then the FAISS ids the first loop did not insert
RECURSIVE AppendNew(_, _)
AppendNew(keys, l) ==
    IF l = <<>> THEN keys
    ELSE AppendNew(IF InList(keys, Head(l)) THEN keys ELSE Append(keys, Head(l)), Tail(l))

\* one loop of lines 222-230 over a result list: scores[idx] += weight *
\* 1/(rrf_k + rank + 1) for rank = 0, 1, ...; scores is a defaultdict(float)
RECURSIVE AddList(_, _, _, _)
AddList(scores, l, w, i) ==
    IF i > Len(l) THEN scores
    ELSE AddList([scores EXCEPT ![l[i]] = @ + Contribution(w, (i - 1) + 1)], l, w, i + 1)

\* the loops with "=" in place of "+=": the second list overwrites the first
RECURSIVE SetList(_, _, _, _)
SetList(scores, l, w, i) ==
    IF i > Len(l) THEN scores
    ELSE SetList([scores EXCEPT ![l[i]] = Contribution(w, (i - 1) + 1)], l, w, i + 1)

rrf_scores_overwrite(bm25, faiss, w_bm25, w_faiss) ==
    SetList(SetList([c \in Chunks |-> 0], bm25, w_bm25, 1), faiss, w_faiss, 1)

\* lines 217-230: the scores dict after both loops
rrf_scores(bm25, faiss, w_bm25, w_faiss) ==
    AddList(AddList([c \in Chunks |-> 0], bm25, w_bm25, 1), faiss, w_faiss, 1)

HybridRetriever_rrf_fusion(bm25, faiss, w_bm25, w_faiss) ==
    LET scores == rrf_scores(bm25, faiss, w_bm25, w_faiss)
        keys   == AppendNew(AppendNew(<<>>, bm25), faiss)
        items  == [i \in 1..Len(keys) |-> [id |-> keys[i], score |-> scores[keys[i]]]]
    IN  StableSortDesc(items)

\* ---- RRFFusion.fuse ----

\* lines 74-75: the rank of a chunk in a list, len + 1 when the list lacks it
fuse_rank(l, c) == IF InList(l, c) THEN Pos(l, c) ELSE Len(l) + 1

\* lines 78-85
final_score(bm25, vector, w_bm25, w_vector, c) ==
    Contribution(w_bm25, fuse_rank(bm25, c)) + Contribution(w_vector, fuse_rank(vector, c))

\* the orders in which `for chunk_id in all_ids` may visit the set of
\* string ids: a set has no insertion order, and string hashing differs
\* from one process to the next
IterationOrders(ids) ==
    {o \in [1..Cardinality(ids) -> ids] : \A i, j \in DOMAIN o : i # j => o[i] # o[j]}

all_ids(bm25, vector) == {bm25[i] : i \in DOMAIN bm25} \cup {vector[i] : i \in DOMAIN vector}

\* lines 60-106 for one iteration order of all_ids
RRFFusion_fuse(bm25, vector, w_bm25, w_vector, top_k, order) ==
    LET items  == [i \in 1..Len(order) |->
                      [id |-> order[i],
                       score |-> final_score(bm25, vector, w_bm25, w_vector, order[i])]]
        sorted == StableSortDesc(items)
    IN  SubSeq(sorted, 1, IF top_k < Len(sorted) THEN top_k ELSE Len(sorted))

\* MAX_CHUNKS_RETRIEVED, the top_k HybridSearchEngine.search passes to fuse
MAX_CHUNKS_RETRIEVED == 5

TopKs == {2, MAX_CHUNKS_RETRIEVED}

\* two ranked lists and the weights the fusion was constructed with
InitFusion ==
    /\ RouterIdle
    /\ AuxIdle
    /\ LateIdle
    /\ task = NoTask
    /\ safety = NoSafety
    /\ \E b \in RankedLists, v \in RankedLists, wb \in Weights, wv \in Weights :
          fusion = [NoFusion EXCEPT !.bm25 = b, !.vector = v,
                                    !.w_bm25 = wb, !.w_vector = wv]

\* HybridRetriever._rrf_fusion(bm25_results, faiss_results)
RrfFusion ==
    /\ fusion.impl = "none"
    /\ fusion' = [fusion EXCEPT
                    !.impl = "HybridRetriever",
                    !.fused = HybridRetriever_rrf_fusion(fusion.bm25, fusion.vector,
                                                         fusion.w_bm25, fusion.w_vector)]
    /\ UNCHANGED <<lateVars, auxVars, routerVars, task, safety>>

\* RRFFusion.fuse(bm25_results, vector_results, top_k)
Fuse ==
    /\ fusion.impl = "none"
    /\ \E k \in TopKs, order \in IterationOrders(all_ids(fusion.bm25, fusion.vector)) :
          fusion' = [fusion EXCEPT
                        !.impl = "RRFFusion",
                        !.top_k = k,
                        !.fused = RRFFusion_fuse(fusion.bm25, fusion.vector,
                                                 fusion.w_bm25, fusion.w_vector, k, order)]
    /\ UNCHANGED <<lateVars, auxVars, routerVars, task, safety>>

NextFusion == RrfFusion \/ Fuse

SpecFusion == InitFusion /\ [][NextFusion]_vars

-----------------------------------------------------------------------------
(* Claims about the fusion *)

Fused == fusion.impl # "none"

\* the chunks of the fused output and their scores
FusedIds == {fusion.fused[i].id : i \in DOMAIN fusion.fused}

ScoreOf(c) == fusion.fused[CHOOSE i \in DOMAIN fusion.fused : fusion.fused[i].id = c].score

InBm25(c) == InList(fusion.bm25, c)
InVector(c) == InList(fusion.vector, c)

\* sum, over only the lists that hold c, of weight / (k + rank), times Scale
RRFSum(c) ==
    (IF InBm25(c)
     THEN fusion.w_bm25 * (Scale \div (RRF_K + Pos(fusion.bm25, c))) ELSE 0)
    + (IF InVector(c)
       THEN fusion.w_vector * (Scale \div (RRF_K + Pos(fusion.vector, c))) ELSE 0)

\* C7: the fusion gives each chunk the sum, over only the lists in which it
\* appears, of weight/(k + rank) with 1-indexed rank; a list that lacks the
\* chunk contributes nothing.
C7_FusedScore ==
    Fused => \A c \in FusedIds : ScoreOf(c) = RRFSum(c)

\* the implementation that keeps C7
C7_HybridRetrieverScore ==
    fusion.impl = "HybridRetriever" => \A c \in FusedIds : ScoreOf(c) = RRFSum(c)

\* chunk a was inserted before chunk b: the sparse list first, in its
\* order, then the chunks only the dense list holds, in its order
InsertedBefore(a, b) ==
    IF InBm25(a)
    THEN InBm25(b) => Pos(fusion.bm25, a) < Pos(fusion.bm25, b)
    ELSE ~InBm25(b) /\ Pos(fusion.vector, a) < Pos(fusion.vector, b)

\* C8: the fused output is sorted by descending fused score, and chunks of
\* equal score appear in chunk insertion order, so the output order is a
\* function of the two input lists.
C8_SortedTiesByInsertion ==
    Fused =>
        \A i, j \in DOMAIN fusion.fused :
            i < j =>
                \/ fusion.fused[i].score > fusion.fused[j].score
                \/ /\ fusion.fused[i].score = fusion.fused[j].score
                   /\ InsertedBefore(fusion.fused[i].id, fusion.fused[j].id)

\* the part both implementations keep: descending fused score
C8_SortedDescending ==
    Fused =>
        \A i, j \in DOMAIN fusion.fused :
            i < j => fusion.fused[i].score >= fusion.fused[j].score

\* a ranks at least as high as b in every list that holds both
RanksAtLeastAsHigh(a, b) ==
    /\ (InBm25(a) /\ InBm25(b)) => Pos(fusion.bm25, a) < Pos(fusion.bm25, b)
    /\ (InVector(a) /\ InVector(b)) => Pos(fusion.vector, a) < Pos(fusion.vector, b)

\* every list that holds b holds a too
InEveryListOf(a, b) ==
    /\ InBm25(b) => InBm25(a)
    /\ InVector(b) => InVector(a)

\* C9 as stated: if A ranks at least as high as B in every list that
\* contains both of them, A's fused score is at least B's.
C9_MonotonicityAsStated ==
    Fused =>
        \A a, b \in FusedIds :
            (a # b /\ RanksAtLeastAsHigh(a, b)) => ScoreOf(a) >= ScoreOf(b)

\* C9 amended: if every list that contains B also contains A, and A ranks
\* at least as high as B in each of them, A's fused score is at least B's.
C9_Monotonicity ==
    Fused =>
        \A a, b \in FusedIds :
            (a # b /\ InEveryListOf(a, b) /\ RanksAtLeastAsHigh(a, b))
                => ScoreOf(a) >= ScoreOf(b)

\* two lists were fused in which a chunk held by both lists ranks above
\* another chunk held by both, and above one held by the sparse list only
C9_Witness ==
    /\ Fused
    /\ \E a, b, c \in FusedIds :
          /\ a # b /\ b # c /\ a # c
          /\ InBm25(a) /\ InVector(a) /\ InBm25(b) /\ InVector(b)
          /\ InBm25(c) /\ ~InVector(c)
          /\ RanksAtLeastAsHigh(a, b) /\ RanksAtLeastAsHigh(a, c)
          /\ ScoreOf(a) > ScoreOf(b)

\* C10: for all positive weights and all input lists, a chunk at rank 1 in
\* both the sparse and the dense list has a strictly higher fused score
\* than every chunk that appears in only one of the two lists.
C10_PresenceBonus ==
    Fused =>
        \A a, b \in FusedIds :
            ( /\ InBm25(a) /\ InVector(a)
              /\ Pos(fusion.bm25, a) = 1 /\ Pos(fusion.vector, a) = 1
              /\ (InBm25(b) # InVector(b)) )
            => ScoreOf(a) > ScoreOf(b)

\* a chunk first in both lists was fused together with a chunk only the
\* sparse list holds, the sparse weight being the larger one
C10_Witness ==
    /\ Fused
    /\ fusion.w_bm25 > fusion.w_vector
    /\ \E a, b \in FusedIds :
          /\ InBm25(a) /\ InVector(a)
          /\ Pos(fusion.bm25, a) = 1 /\ Pos(fusion.vector, a) = 1
          /\ InBm25(b) /\ ~InVector(b)

-----------------------------------------------------------------------------
(* src/src/runtime/rag/temporal_filter.py: TemporalFilter *)

\* most runs of four or more digits in a text handed to extract_year
MaxTokens == 2
\* most chunks in a list handed to filter_chunks
MaxList == 2

\* the first four digits of a digit run, read as a number
YearValues == {1899, 1900, 2024, 2100, 2101}

\* A text is described by what the patterns look at: its runs of four or
\* more digits, left to right, each with its first four digits and
\* whether "năm " stands right before it
Texts ==
    UNION {[1..n -> [digits : YearValues, nam : BOOLEAN]] : n \in 0..MaxTokens}

\* YEAR_EXTRACTION_PATTERNS, in the order of the list: r"năm (\d{4})",
\* then r"(\d{4})"
YEAR_EXTRACTION_PATTERNS == <<"nam_year", "any_year">>

\* pattern.search(text): the leftmost run the pattern matches, 0 for no match
pattern_search(pattern, text) ==
    LET hits == {i \in DOMAIN text : pattern = "any_year" \/ text[i].nam}
    IN  IF hits = {} THEN 0 ELSE CHOOSE i \in hits : \A j \in hits : i <= j

\* the loop of lines 32-42 from pattern number p on: a pattern whose match
\* is out of range is passed over and the next pattern is tried
RECURSIVE extract_year_from(_, _, _)
extract_year_from(patterns, text, p) ==
    IF p > Len(patterns) THEN None
    ELSE LET m == pattern_search(patterns[p], text)
         IN  IF m # 0 /\ 1900 <= text[m].digits /\ text[m].digits <= 2100
             THEN Some(text[m].digits)
             ELSE extract_year_from(patterns, text, p + 1)

\* extract_year with the pattern list cut down to the plain 4-digit pattern
extract_year_plain(text) == extract_year_from(<<"any_year">>, text, 1)

\* TemporalFilter.extract_year
extract_year(text) == extract_year_from(YEAR_EXTRACTION_PATTERNS, text, 1)

\* years a chunk's validity window starts or ends with
WindowYears == {2023, 2024, 9999}

\* years a query asks about
QueryYears == 2022..2025

\* lists of chunks: a chunk is known by its place in the list
ChunkLists ==
    UNION {[1..n -> [valid_from : WindowYears, expire_at : WindowYears]] :
            n \in 0..MaxList}

WithIds(windows) ==
    [i \in DOMAIN windows |->
        [id |-> i, valid_from |-> windows[i].valid_from,
         expire_at |-> windows[i].expire_at]]

\* the test of line 68 with the upper end left out of the window
chunk_is_valid_exclusive(chunk, query_year) ==
    chunk.valid_from <= query_year /\ query_year < chunk.expire_at

\* line 68: chunk.metadata.valid_from <= query_year <= chunk.metadata.expire_at
chunk_is_valid(chunk, query_year) ==
    chunk.valid_from <= query_year /\ query_year <= chunk.expire_at

\* lines 65-69: the loop that appends the valid chunks
RECURSIVE filter_loop(_, _, _, _)
filter_loop(chunks, query_year, i, filtered) ==
    IF i > Len(chunks) THEN filtered
    ELSE filter_loop(chunks, query_year, i + 1,
                     IF chunk_is_valid(chunks[i], query_year)
                     THEN Append(filtered, chunks[i]) ELSE filtered)

\* TemporalFilter.filter_chunks
filter_chunks(chunks, query_year) ==
    IF query_year = None THEN chunks
    ELSE filter_loop(chunks, query_year[1], 1, <<>>)

CoreIdle ==
    /\ RouterIdle
    /\ task = NoTask
    /\ safety = NoSafety
    /\ fusion = NoFusion

\* a text about to be searched for a year, or a list of chunks about to be
\* filtered for a query year
InitTemporal ==
    /\ CoreIdle
    /\ \/ \E text \in Texts : temporal = [NoTemporal EXCEPT !.text = text]
       \/ \E w \in ChunkLists, y \in {None} \cup {Some(q) : q \in QueryYears} :
             temporal = [NoTemporal EXCEPT !.chunks = WithIds(w), !.year = y]
    /\ merge = NoMerge
    /\ retrieval = NoRetrieval
    /\ batch = NoBatch
    /\ retry = NoRetry
    /\ startup = NoStartup
    /\ LateIdle

\* TemporalFilter.extract_year(text)
ExtractYear ==
    /\ temporal.op = "none"
    /\ temporal' = [temporal EXCEPT !.op = "extract_year",
                                    !.result = extract_year(temporal.text)]
    /\ UNCHANGED <<lateVars, routerVars, task, safety, fusion, merge, retrieval, batch, retry, startup>>

\* TemporalFilter.filter_chunks(chunks, query_year)
FilterChunks ==
    /\ temporal.op = "none"
    /\ temporal' = [temporal EXCEPT
                      !.op = "filter_chunks",
                      !.result = filter_chunks(temporal.chunks, temporal.year)]
    /\ UNCHANGED <<lateVars, routerVars, task, safety, fusion, merge, retrieval, batch, retry, startup>>

NextTemporal == ExtractYear \/ FilterChunks

SpecTemporal == InitTemporal /\ [][NextTemporal]_vars

-----------------------------------------------------------------------------
(* Claims about the temporal filter *)

Filtered == temporal.op = "filter_chunks"

Kept(c) == \E i \in DOMAIN temporal.result : temporal.result[i] = c

\* C12: filter_chunks(chunks, year) returns exactly the chunks with
\* valid_from <= year <= expire_at, in their original order (so year =
\* valid_from and year = expire_at are kept, valid_from - 1 and expire_at + 1
\* dropped); when year is absent every chunk is returned.
C12_FilterChunks ==
    Filtered =>
        IF temporal.year = None
        THEN temporal.result = temporal.chunks
        ELSE LET y == temporal.year[1]
             IN  /\ \A i \in DOMAIN temporal.chunks :
                       Kept(temporal.chunks[i]) <=>
                           (temporal.chunks[i].valid_from <= y
                            /\ y <= temporal.chunks[i].expire_at)
                 /\ \A i \in DOMAIN temporal.result : Kept(temporal.result[i])
                       /\ \E j \in DOMAIN temporal.chunks :
                             temporal.chunks[j] = temporal.result[i]
                 /\ \A i, j \in DOMAIN temporal.result :
                       i < j => temporal.result[i].id < temporal.result[j].id

\* a list was filtered for a year that is the last year of one chunk's
\* window (kept) and one past the window of a chunk before it (dropped)
C12_Witness ==
    /\ Filtered
    /\ temporal.year # None
    /\ Len(temporal.chunks) = 2
    /\ temporal.chunks[1].expire_at + 1 = temporal.year[1]
    /\ temporal.chunks[2].expire_at = temporal.year[1]
    /\ temporal.chunks[2].valid_from = temporal.year[1]
    /\ temporal.result = <<temporal.chunks[2]>>

Extracted == temporal.op = "extract_year"

InRange(y) == 1900 <= y /\ y <= 2100

\* C13 as stated: extract_year returns only years in [1900, 2100]; when the
\* leftmost 4-digit year of the text is in range it is the result, wherever
\* later years or "năm YYYY" phrases occur; the result is None when the text
\* has no 4-digit year.
C13_LeftmostYearWins ==
    Extracted =>
        /\ temporal.result # None => InRange(temporal.result[1])
        /\ (Len(temporal.text) > 0 /\ InRange(temporal.text[1].digits))
              => temporal.result = Some(temporal.text[1].digits)
        /\ Len(temporal.text) = 0 => temporal.result = None

\* the leftmost run that "năm " precedes, 0 when there is none
FirstNam == pattern_search("nam_year", temporal.text)

\* C13 amended: extract_year returns only years in [1900, 2100], and the
\* first pattern that yields one wins: the year of the leftmost "năm YYYY"
\* phrase when it is in range, otherwise the leftmost 4-digit number when it
\* is in range, otherwise None (so None when the text has no 4-digit number).
C13_FirstPatternWins ==
    Extracted =>
        /\ temporal.result # None => InRange(temporal.result[1])
        /\ IF FirstNam # 0 /\ InRange(temporal.text[FirstNam].digits)
           THEN temporal.result = Some(temporal.text[FirstNam].digits)
           ELSE IF Len(temporal.text) > 0 /\ InRange(temporal.text[1].digits)
           THEN temporal.result = Some(temporal.text[1].digits)
           ELSE temporal.result = None

\* a text was searched whose leftmost year is in range and stands before a
\* "năm YYYY" phrase with another year, also in range
C13_Witness ==
    /\ Extracted
    /\ Len(temporal.text) = 2
    /\ ~temporal.text[1].nam /\ temporal.text[2].nam
    /\ InRange(temporal.text[1].digits) /\ InRange(temporal.text[2].digits)
    /\ temporal.text[1].digits # temporal.text[2].digits
    /\ temporal.result = Some(temporal.text[2].digits)

-----------------------------------------------------------------------------
(* src/src/brain/agent/domain_mapper.py: DomainMapper *)

\* longest category list handed to merge_with_entity_categories
MaxCats == 2

CategoryNames == {"Phap_luat_Viet_Nam", "Lich_Su_Viet_nam", "Bac_Ho"}

\* Optional[List[str]]: None, or a list (the empty list included)
CategoryLists == UNION {[1..n -> CategoryNames] : n \in 0..MaxCats}

OptionalCategoryLists == {None} \cup {Some(l) : l \in CategoryLists}

\* set(a_list)
SetOf(l) == {l[i] : i \in DOMAIN l}

\* `x is not None and len(x) > 0`, and `x and len(x) > 0`
Present(x) == x # None /\ Len(x[1]) > 0

\* the merge with the union of the two lists in place of the intersection
merge_with_union(domain_categories, entity_categories, order) ==
    IF Present(domain_categories)
    THEN IF Present(entity_categories)
         THEN Some(domain_categories[1] \o entity_categories[1])
         ELSE domain_categories
    ELSE IF Present(entity_categories) THEN entity_categories
    ELSE None

\* DomainMapper.merge_with_entity_categories; order is the order in which
\* list(set(domain) & set(entity)) lists the common categories
merge_with_entity_categories(domain_categories, entity_categories, order) ==
    IF Present(domain_categories)
    THEN IF Present(entity_categories)
         THEN LET intersection == SetOf(domain_categories[1]) \cap SetOf(entity_categories[1])
              IN  IF intersection # {} THEN Some(order) ELSE domain_categories
         ELSE domain_categories
    ELSE IF Present(entity_categories) THEN entity_categories
    ELSE None

\* the categories both lists hold (none when either list is absent)
Common(domain_categories, entity_categories) ==
    IF Present(domain_categories) /\ Present(entity_categories)
    THEN SetOf(domain_categories[1]) \cap SetOf(entity_categories[1])
    ELSE {}

\* the two arguments of a call about to be made
InitMerge ==
    /\ CoreIdle
    /\ temporal = NoTemporal
    /\ \E d \in OptionalCategoryLists, e \in OptionalCategoryLists :
          merge = [NoMerge EXCEPT !.domain_categories = d, !.entity_categories = e]
    /\ retrieval = NoRetrieval
    /\ batch = NoBatch
    /\ retry = NoRetry
    /\ startup = NoStartup
    /\ LateIdle

\* DomainMapper.merge_with_entity_categories(domain_categories, entity_categories)
MergeCategories ==
    /\ ~merge.called
    /\ \E order \in IterationOrders(Common(merge.domain_categories, merge.entity_categories)) :
          merge' = [merge EXCEPT
                      !.called = TRUE,
                      !.outcome = "return",
                      !.result = merge_with_entity_categories(
                                     merge.domain_categories, merge.entity_categories, order)]
    /\ UNCHANGED <<lateVars, routerVars, task, safety, fusion, temporal, retrieval, batch, retry, startup>>

NextMerge == MergeCategories

SpecMerge == InitMerge /\ [][NextMerge]_vars

-----------------------------------------------------------------------------
(* Claims about the category merge *)

-----------------------------------------------------------------------------
(* The retrievers: src/src/brain/rag/retriever.py (HybridRetriever),        *)
(* src/src/brain/rag/lancedb_retriever.py (LanceDBRetriever),               *)
(* src/src/runtime/rag/hybrid_search.py (HybridSearchEngine) and the        *)
(* retrieval block of RAGTask.invoke                                        *)
(*                                                                          *)
(* The store holds the chunks 1..NumChunks, numbered in the order of their  *)
(* BM25 score for the query; the order of their dense similarity is any     *)
(* permutation.  The candidate depths (bm25_top_k, faiss_top_k) equal the   *)
(* size of the store, so no index pads its answer.  min_score is 0.0 and    *)
(* drops nothing.                                                           *)

\* categories chunks are indexed under; "Bac_Ho" is a category no chunk has
StoreCategories == {"Phap_luat_Viet_Nam", "Lich_Su_Viet_nam"}

\* categories_filter arguments: None, [], and lists of known categories
FilterLists ==
    {None, Some(<<>>), Some(<<"Phap_luat_Viet_Nam">>), Some(<<"Bac_Ho">>),
     Some(<<"Phap_luat_Viet_Nam", "Bac_Ho">>)}

\* validity windows of the documents: 2013..2023 and 2024..9999
StoreWindows ==
    {[valid_from |-> 2013, expire_at |-> 2023], [valid_from |-> 2024, expire_at |-> 9999]}

\* temporal constraints of a query
Constraints == {None, Some(2023), Some(2024)}

\* get_embedding for the query: raises, returns None, returns [], or
\* returns a vector of the index's dimension
RetrievalEmbeddings == {"exception", "none", "empty", "vector"}

\* s[:n]
Take(s, n) == SubSeq(s, 1, IF n < Len(s) THEN n ELSE Len(s))

\* the members of S in the order they have in s
Restrict(s, S) == LET In(x) == x \in S IN SelectSeq(s, In)

Ids(items) == [i \in DOMAIN items |-> items[i].id]

\* the chunks by falling BM25 score
bm25_order == [i \in 1..NumChunks |-> i]

\* ---- HybridRetriever.retrieve ----

\* lines 102-109: None, or the indices of the chunks of the filter's
\* categories (a filter that is None or [] selects nothing)
valid_indices(category, filter) ==
    IF Present(filter)
    THEN Some({c \in Chunks : category[c] \in SetOf(filter[1])})
    ELSE None

\* BM25Index.search(query, top_k, doc_indices)
BM25Index_search(top_k, doc_indices) ==
    IF doc_indices = None THEN Take(bm25_order, top_k)
    ELSE Take(Restrict(bm25_order, doc_indices[1]), top_k)

\* lines 121-132: `if valid_indices:` sends an empty selection, like None,
\* to the unfiltered FAISSIndex.search
faiss_search(dense, valid, top_k) ==
    IF valid # None /\ valid[1] # {}
    THEN Take(Restrict(dense, valid[1]), top_k)
    ELSE Take(dense, top_k)

\* _get_query_embedding, lines 175-200: None on an exception and on a
\* response that is neither dict nor list; a list, [] too, becomes an array
HybridRetriever_query_embedding(embedding) ==
    IF embedding \in {"exception", "none"} THEN "None"
    ELSE IF embedding = "empty" THEN "empty_array"
    ELSE "array"

\* HybridRetriever.retrieve: [outcome, bm25_results, faiss_results, results].
\* The FAISS searches raise on a query of the wrong dimension (an empty
\* array has dimension 0), and search_with_filter raises when the index
\* kept no embeddings (it was loaded, not built)
HybridRetriever_retrieve(category, dense, embeddings_kept, filter, embedding, top_k) ==
    LET valid == valid_indices(category, filter)
        bm25  == BM25Index_search(NumChunks, valid)
        q     == HybridRetriever_query_embedding(embedding)
        filtered == valid # None /\ valid[1] # {}
        faiss == IF q = "None" THEN <<>> ELSE faiss_search(dense, valid, NumChunks)
        fused == HybridRetriever_rrf_fusion(bm25, faiss, 1, 1)
    IN  IF q = "empty_array" \/ (q = "array" /\ filtered /\ ~embeddings_kept)
        THEN [outcome |-> "raise", bm25_results |-> bm25, faiss_results |-> <<>>,
              results |-> <<>>]
        ELSE [outcome |-> "return", bm25_results |-> bm25, faiss_results |-> faiss,
              results |-> Take(Ids(Take(fused, top_k * 2)), top_k)]

\* ---- LanceDBRetriever.retrieve ----

\* _get_query_embedding, lines 173-187: None on an exception and on any
\* falsy response
LanceDBRetriever_query_embedding(embedding) ==
    IF embedding = "vector" THEN "array" ELSE "None"

\* the rows a search with WHERE category IN (...) ranks: all rows when the
\* filter is None or []
LanceDB_rows(category, dense, filter) ==
    IF Present(filter)
    THEN Restrict(dense, {c \in Chunks : category[c] \in SetOf(filter[1])})
    ELSE dense

\* what index.hybrid_search does: it answers ("ok"), it raises for a reason
\* of its own (the FTS index, the reranker: "hybrid_only"), or it raises
\* for a reason every search of the table meets (the table cannot be
\* opened by _get_table, the query vector has not the table's dimension:
\* "shared")
HybridSearchOutcomes == {"ok", "hybrid_only", "shared"}

\* LanceDBRetriever.retrieve: index.hybrid_search answers or raises (lines
\* 97-104); when it raises, the vector search of lines 105-118, which no
\* handler encloses, answers or raises in its turn
LanceDBRetriever_retrieve(hybrid, category, dense, filter, embedding, top_k) ==
    IF LanceDBRetriever_query_embedding(embedding) = "None"
    THEN [outcome |-> "return", bm25_results |-> <<>>, faiss_results |-> <<>>,
          results |-> <<>>]
    ELSE IF hybrid = "shared"
    THEN [outcome |-> "raise", bm25_results |-> <<>>, faiss_results |-> <<>>,
          results |-> <<>>]
    ELSE LET rows == Take(LanceDB_rows(category, dense, filter), top_k)
         IN  [outcome |-> "return", bm25_results |-> <<>>, faiss_results |-> rows,
              results |-> rows]

\* ---- HybridSearchEngine.search ----

\* the weights RRFFusion() is constructed with and MIN_RELEVANCE_SCORE,
\* all in tenths
BM25_WEIGHT == 6
VECTOR_WEIGHT == 4
MIN_RELEVANCE_SCORE == 3

\* lines 70-78: the pre-filter of one result list
temporal_prefilter(results, window, temporal_year) ==
    IF temporal_year = None THEN results
    ELSE LET Valid(c) == window[c].valid_from <= temporal_year[1]
                         /\ temporal_year[1] <= window[c].expire_at
         IN  SelectSeq(results, Valid)

\* _vector_search, lines 153-179: [] when the embedding raises or is empty
HybridSearchEngine_vector_search(dense, embedding, top_k) ==
    IF embedding = "vector" THEN Take(dense, top_k) ELSE <<>>

\* HybridSearchEngine.search for one iteration order of the fused ids
HybridSearchEngine_search(window, dense, embedding, top_k, temporal_year, order) ==
    LET bm25   == temporal_prefilter(Take(bm25_order, top_k), window, temporal_year)
        vector == temporal_prefilter(
                      HybridSearchEngine_vector_search(dense, embedding, top_k),
                      window, temporal_year)
        fused  == RRFFusion_fuse(bm25, vector, BM25_WEIGHT, VECTOR_WEIGHT, top_k, order)
        Relevant(r) == r.score >= MIN_RELEVANCE_SCORE * Scale
    IN  [outcome |-> "return", bm25_results |-> bm25, faiss_results |-> vector,
         results |-> Ids(SelectSeq(fused, Relevant))]

\* ---- RAGTask.invoke with a retriever ----

\* RetrievalConfig.top_k
RetrievalConfig_top_k == 5

\* what generate() gives the task: an exception, or a text with no quoted
\* letter outside its JSON object
PlainGenOutcomes == {g \in GenOutcomes : g.quoted = {}}

\* the option sets of the queries: with and without the key "A"
RetrievalOptionSets == {Letters, Letters \ {"A"}}

\* lines 160-196: the chunks put into the prompt; the temporal constraint
\* is not handed to the retriever, and a retrieval that raises is caught
RAGTask_retrieved(r) == IF r.outcome = "return" THEN r.results ELSE <<>>

\* ---- the calls ----

\* a store, a category filter and what the embedding capability will do
InitRetrieve ==
    /\ CoreIdle
    /\ temporal = NoTemporal
    /\ merge = NoMerge
    /\ \E category \in [Chunks -> StoreCategories], dense \in IterationOrders(Chunks),
          kept \in BOOLEAN, filter \in FilterLists, e \in RetrievalEmbeddings :
          retrieval = [NoRetrieval EXCEPT
                         !.category = category,
                         !.window = [c \in Chunks |-> [valid_from |-> 2024, expire_at |-> 9999]],
                         !.dense = dense, !.embeddings_kept = kept,
                         !.filter = filter, !.embedding = e]
    /\ batch = NoBatch
    /\ retry = NoRetry
    /\ startup = NoStartup
    /\ LateIdle

\* a store of dated chunks and a query with a temporal constraint
InitTemporalRetrieve ==
    /\ CoreIdle
    /\ temporal = NoTemporal
    /\ merge = NoMerge
    /\ \E window \in [Chunks -> StoreWindows], dense \in IterationOrders(Chunks),
          year \in Constraints, e \in {"vector", "exception"} :
          retrieval = [NoRetrieval EXCEPT
                         !.category = [c \in Chunks |-> "Lich_Su_Viet_nam"],
                         !.window = window, !.dense = dense,
                         !.year = year, !.embedding = e]
    /\ batch = NoBatch
    /\ retry = NoRetry
    /\ startup = NoStartup
    /\ LateIdle

Retrieved(impl, top_k, r) ==
    /\ retrieval' = [retrieval EXCEPT
                       !.impl = impl, !.top_k = top_k,
                       !.outcome = r.outcome, !.retriever_outcome = r.outcome,
                       !.bm25_results = r.bm25_results,
                       !.faiss_results = r.faiss_results,
                       !.results = r.results]
    /\ UNCHANGED <<lateVars, routerVars, task, safety, fusion, temporal, merge, batch, retry, startup>>

\* HybridRetriever.retrieve(query, top_k, categories_filter=filter)
HybridRetrieve ==
    /\ retrieval.impl = "none"
    /\ \E top_k \in TopKs :
          Retrieved("HybridRetriever", top_k,
                    HybridRetriever_retrieve(retrieval.category, retrieval.dense,
                                             retrieval.embeddings_kept, retrieval.filter,
                                             retrieval.embedding, top_k))

\* LanceDBRetriever.retrieve(query, top_k, categories_filter=filter)
LanceRetrieve ==
    /\ retrieval.impl = "none"
    /\ \E top_k \in TopKs :
          Retrieved("LanceDBRetriever", top_k,
                    LanceDBRetriever_retrieve(retrieval.hybrid,
                                              retrieval.category, retrieval.dense,
                                              retrieval.filter, retrieval.embedding, top_k))

\* top_k arguments of HybridSearchEngine.search
EngineTopKs == {2, NumChunks}

\* HybridSearchEngine.search(query, top_k, temporal_year=year) on loaded
\* indices
EngineSearch ==
    /\ retrieval.impl = "none"
    /\ \E top_k \in EngineTopKs, order \in IterationOrders(Chunks) :
          Retrieved("HybridSearchEngine", top_k,
                    HybridSearchEngine_search(
                            retrieval.window, retrieval.dense, retrieval.embedding,
                            top_k, retrieval.year,
                            Restrict(order, all_ids(
                                temporal_prefilter(Take(bm25_order, top_k),
                                                   retrieval.window, retrieval.year),
                                temporal_prefilter(
                                    HybridSearchEngine_vector_search(
                                        retrieval.dense, retrieval.embedding, top_k),
                                    retrieval.window, retrieval.year)))))

\* RAGTask.invoke(query, domain, options, temporal_constraint=year,
\* key_entities) of a task constructed with a retriever; filter is the
\* category filter the merge of lines 167-176 gave (None or a non-empty list)
RagRetrieve ==
    /\ retrieval.impl = "none"
    /\ retrieval.filter = None \/ Present(retrieval.filter)
    /\ \E impl \in {"HybridRetriever", "LanceDBRetriever"},
          opts \in RetrievalOptionSets, g \in PlainGenOutcomes :
          LET r == IF impl = "HybridRetriever"
                   THEN HybridRetriever_retrieve(
                            retrieval.category, retrieval.dense,
                            retrieval.embeddings_kept, retrieval.filter,
                            retrieval.embedding, RetrievalConfig_top_k)
                   ELSE LanceDBRetriever_retrieve(
                            retrieval.hybrid,
                            retrieval.category, retrieval.dense, retrieval.filter,
                            retrieval.embedding, RetrievalConfig_top_k)
              chunks == RAGTask_retrieved(r)
          IN  retrieval' = [retrieval EXCEPT
                              !.impl = impl, !.via_task = TRUE,
                              !.top_k = RetrievalConfig_top_k,
                              !.outcome = "return",
                              !.retriever_outcome = r.outcome,
                              !.bm25_results = r.bm25_results,
                              !.faiss_results = r.faiss_results,
                              !.results = chunks,
                              !.options = opts,
                              !.context = chunks # <<>>,
                              !.generated = g.kind,
                              !.answer = RAGTask_invoke(g, opts)]
    /\ UNCHANGED <<lateVars, routerVars, task, safety, fusion, temporal, merge, batch, retry, startup>>

NextRetrieve == HybridRetrieve \/ LanceRetrieve \/ RagRetrieve

SpecRetrieve == InitRetrieve /\ [][NextRetrieve]_vars

NextTemporalRetrieve == EngineSearch \/ RagRetrieve

SpecTemporalRetrieve == InitTemporalRetrieve /\ [][NextTemporalRetrieve]_vars

-----------------------------------------------------------------------------
(* Claims about retrieval *)

Retrieval == retrieval.impl # "none"

InWindow(c) ==
    /\ retrieval.window[c].valid_from <= retrieval.year[1]
    /\ retrieval.year[1] <= retrieval.window[c].expire_at

AllOf(s, P(_)) == \A i \in DOMAIN s : P(s[i])

\* C11: whenever a temporal constraint accompanies a retrieval query, every
\* chunk of the final retrieved set handed to answer generation satisfies
\* valid_from <= year <= expire_at, whatever its rank in either list.
C11_TemporalValidity ==
    (Retrieval /\ retrieval.year # None) => AllOf(retrieval.results, InWindow)

\* what HybridSearchEngine.search keeps: both lists are filtered before the
\* fusion, so the fused set respects the window
C11_EnginePrefilter ==
    (retrieval.impl = "HybridSearchEngine" /\ retrieval.year # None) =>
        /\ AllOf(retrieval.bm25_results, InWindow)
        /\ AllOf(retrieval.faiss_results, InWindow)
        /\ AllOf(retrieval.results, InWindow)

InFilter(c) == retrieval.category[c] \in SetOf(retrieval.filter[1])

\* C15: whenever a non-empty category filter is passed to a retriever,
\* every result returned (sparse side, dense side, after fusion) is a chunk
\* whose category belongs to the filter; when no indexed chunk has a
\* filtered category the result is empty.
C15_CategoryFilter ==
    (Retrieval /\ Present(retrieval.filter) /\ retrieval.retriever_outcome = "return") =>
        /\ AllOf(retrieval.bm25_results, InFilter)
        /\ AllOf(retrieval.faiss_results, InFilter)
        /\ AllOf(retrieval.results, InFilter)

\* what the code keeps of C15: LanceDBRetriever always, HybridRetriever
\* whenever some indexed chunk has a category of the filter
C15_FilterWithMatches ==
    (Retrieval /\ Present(retrieval.filter) /\ retrieval.retriever_outcome = "return"
       /\ (retrieval.impl = "LanceDBRetriever" \/ \E c \in Chunks : InFilter(c))) =>
        /\ AllOf(retrieval.bm25_results, InFilter)
        /\ AllOf(retrieval.faiss_results, InFilter)
        /\ AllOf(retrieval.results, InFilter)

EmbeddingFailed == retrieval.embedding \in {"exception", "none", "empty"}

\* C16: if embedding the query fails (the capability raises or returns
\* nothing), retrieve returns an empty list without raising, and the
\* retrieval branch then asks the generation capability without context and
\* still ends with an option key.
C16_EmbeddingFailure ==
    (Retrieval /\ EmbeddingFailed) =>
        /\ retrieval.retriever_outcome = "return"
        /\ retrieval.results = <<>>
        /\ retrieval.via_task =>
              (~retrieval.context /\ retrieval.answer \in retrieval.options)

\* what the code keeps of C16: LanceDBRetriever returns [] and the task
\* answers without context, with an option key whenever generate() returns
C16_LanceDBEmbeddingFailure ==
    (retrieval.impl = "LanceDBRetriever" /\ EmbeddingFailed) =>
        /\ retrieval.retriever_outcome = "return"
        /\ retrieval.results = <<>>
        /\ (retrieval.via_task /\ retrieval.generated = "text") =>
              (~retrieval.context /\ retrieval.answer \in retrieval.options)


-----------------------------------------------------------------------------
(* InferencePipeline.run_inference: a batch of questions processed
   concurrently under a semaphore, src/brain/inference/pipeline.py *)

\* largest number of questions in a batch
MaxQuestions == 3
\* largest batch_size (permits of the semaphore)
MaxBatch == 2

\* what agent.process_query does for one question: it answers, its inner
\* task times out (the fallback answer is returned), or it raises
AgentOutcomes == {"answer", "timeout", "raise"}

\* options = {chr(65 + i): choice for i, choice in enumerate(choices)}
options_of(num_choices) == {Alphabet[i] : i \in 1..num_choices}

\* the answer the agent gives to a question when nothing goes wrong: the
\* last of its option keys
AgentAnswer(num_choices) == Alphabet[num_choices]

\* result.get('answer', 'A') of agent.process_query for one question, or
\* None when process_query raised
process_query_answer(outcome, num_choices) ==
    CASE outcome = "answer"  -> Some(AgentAnswer(num_choices))
      [] outcome = "timeout" -> Some(TimeoutFallback(options_of(num_choices)))
      [] outcome = "raise"   -> None

\* the fields of the dataclass PredictionResult of processor.py
PredictionResult_fields == {"qid", "predicted_answer", "confidence"}

\* PredictionResult(**kwargs): a dataclass rejects a keyword that is not one
\* of its fields with a TypeError
PredictionResult(kwargs) ==
    IF DOMAIN kwargs \subseteq PredictionResult_fields
      THEN [kind |-> "return", qid |-> kwargs.qid,
            predicted_answer |-> kwargs.predicted_answer]
      ELSE [kind |-> "raise", qid |-> kwargs.qid, predicted_answer |-> "TypeError"]

\* process_one, lines 69-117, from the moment process_query is over: the
\* try block builds the prediction; an exception there (or in
\* process_query) goes to the handler, which builds one with 'A'; an
\* exception in the handler leaves process_one
process_one(qid, answer) ==
    LET tried == IF answer = None
                   THEN [kind |-> "raise", qid |-> qid, predicted_answer |-> "Exception"]
                   ELSE PredictionResult([qid |-> qid, predicted_answer |-> answer[1],
                                          inference_time |-> 0])
    IN  IF tried.kind = "return"
          THEN tried
          ELSE PredictionResult([qid |-> qid, predicted_answer |-> "A",
                                 inference_time |-> 0])

InitBatch ==
    /\ CoreIdle
    /\ temporal = NoTemporal
    /\ merge = NoMerge
    /\ retrieval = NoRetrieval
    /\ \E n \in 0..MaxQuestions, b \in 1..MaxBatch :
       \E agent \in [1..n -> AgentOutcomes] :
          batch = [NoBatch EXCEPT
                     !.num_choices = 2,
                     !.questions = [i \in 1..n |-> i],
                     !.batch_size = b,
                     !.agent = agent,
                     !.pos = [i \in 1..n |-> "none"],
                     !.answers = [i \in 1..n |-> None]]
    /\ retry = NoRetry
    /\ startup = NoStartup
    /\ LateIdle

BatchUnchanged ==
    UNCHANGED <<lateVars, routerVars, task, safety, fusion, temporal, merge, retrieval, retry, startup>>

Holders == {i \in DOMAIN batch.pos : batch.pos[i] = "holding"}

\* lines 60-120: the tasks are created and gathered
RunInference ==
    /\ batch.state = "none"
    /\ batch' = [batch EXCEPT !.state = "running",
                              !.pos = [i \in DOMAIN batch.pos |-> "waiting"]]
    /\ BatchUnchanged

\* `async with semaphore`: a task enters when a permit is free and starts
\* agent.process_query
Acquire ==
    /\ \E i \in DOMAIN batch.pos :
          /\ batch.pos[i] = "waiting"
          /\ Cardinality(Holders) < batch.batch_size
          /\ batch' = [batch EXCEPT !.pos[i] = "holding"]
    /\ BatchUnchanged

\* process_query of one task is over (answer, timeout fallback or
\* exception); process_one builds its prediction and leaves the semaphore.
\* gather (line 120, without return_exceptions) hands the first exception
\* of a task to run_inference, which does not catch it.
Complete ==
    /\ \E i \in DOMAIN batch.pos :
          /\ batch.pos[i] = "holding"
          /\ LET answer == process_query_answer(batch.agent[i], batch.num_choices)
                 made == process_one(batch.questions[i], answer)
             IN  batch' = [batch EXCEPT
                     !.pos[i] = IF made.kind = "return" THEN "done" ELSE "raised",
                     !.answers[i] = answer,
                     !.predictions = IF made.kind = "return"
                                       THEN @ @@ (i :> made) ELSE @,
                     !.state = IF made.kind = "raise" /\ @ = "running"
                                 THEN "raised" ELSE @,
                     !.error = IF made.kind = "raise" /\ batch.state = "running"
                                 THEN made.predicted_answer ELSE @]
    /\ BatchUnchanged

\* gather returns the tasks' results in the order of the task list
GatherReturn ==
    /\ batch.state = "running"
    /\ \A i \in DOMAIN batch.pos : batch.pos[i] = "done"
    /\ batch' = [batch EXCEPT !.state = "returned"]
    /\ BatchUnchanged

NextBatch == RunInference \/ Acquire \/ Complete \/ GatherReturn

SpecBatch == InitBatch /\ [][NextBatch]_vars

-----------------------------------------------------------------------------
(* Claims about run_inference *)

BatchOver == batch.state \in {"returned", "raised"}

\* C17: run_inference returns exactly one prediction per input question,
\* and the i-th prediction carries the qid of the i-th question, whatever
\* order the concurrent queries finish in and whether or not some fail.
C17_OnePredictionPerQuestion ==
    BatchOver =>
        /\ batch.state = "returned"
        /\ DOMAIN batch.predictions = DOMAIN batch.questions
        /\ \A i \in DOMAIN batch.questions :
              batch.predictions[i].qid = batch.questions[i]

\* what the code keeps of C17: the empty batch comes back as the empty list
C17_EmptyBatch ==
    (BatchOver /\ batch.questions = <<>>) =>
        (batch.state = "returned" /\ batch.predictions = <<>>)

TimedOut(i) == batch.agent[i] = "timeout" /\ batch.answers[i] # None

AllTasksOver == \A i \in DOMAIN batch.pos : batch.pos[i] \in {"done", "raised"}

\* C18: a timeout of one query replaces only that query's answer: the
\* other queries of the batch complete with the answer they would have
\* given anyway.
C18_TimeoutIsLocal ==
    (AllTasksOver /\ \E j \in DOMAIN batch.pos : TimedOut(j)) =>
        \A i \in DOMAIN batch.questions :
            batch.agent[i] = "answer" =>
                /\ batch.state = "returned"
                /\ i \in DOMAIN batch.predictions
                /\ batch.predictions[i].predicted_answer = AgentAnswer(batch.num_choices)

\* what the code keeps of C18: process_query of a sibling still gives the
\* sibling's own answer, and the timed-out query gets the fallback key
C18_ProcessQueryAnswers ==
    \A i \in DOMAIN batch.answers :
        batch.pos[i] \in {"done", "raised"} =>
            /\ batch.agent[i] = "answer" =>
                  batch.answers[i] = Some(AgentAnswer(batch.num_choices))
            /\ batch.agent[i] = "timeout" =>
                  batch.answers[i] = Some(SortedFirst(options_of(batch.num_choices)))


-----------------------------------------------------------------------------
(* retry_async, src/brain/llm/services/retry_utils.py, as applied to
   VNPTService._generate_with_retry and _get_embedding_with_retry *)

\* number of calls of the wrapped function whose outcome is drawn
MaxCalls == 5

\* @retry_async(max_retries=3, ...)
max_retries == 3
\* backoff_base: float = 2.0
backoff_base == 2
\* max_backoff: float = 8.0
max_backoff == 8

\* what one call of the wrapped function does: it returns, it raises one of
\* `exceptions` (aiohttp.ClientError, asyncio.TimeoutError,
\* ConnectionError), or it raises something else
CallOutcomes == {"ok", "transport", "other"}

\* the exceptions one call of _generate_with_retry or
\* _get_embedding_with_retry can raise: a refused connection, a timeout,
\* an error status (response.raise_for_status()), a body whose content
\* type is not JSON (response.json() raises aiohttp.ContentTypeError), a
\* body that is not valid JSON, a missing field, an unexpected format
CallFailures ==
    {"ClientConnectorError", "TimeoutError", "ClientResponseError",
     "ContentTypeError", "JSONDecodeError", "KeyError", "ValueError"}

\* the classes of aiohttp.ClientError among them: ContentTypeError derives
\* from ClientResponseError, which derives from ClientError
ClientErrors == {"ClientConnectorError", "ClientResponseError", "ContentTypeError"}

\* `except exceptions`: isinstance(e, (aiohttp.ClientError,
\* asyncio.TimeoutError, ConnectionError))
is_caught(outcome) ==
    outcome = "transport" \/ outcome \in ClientErrors \/ outcome = "TimeoutError"

RECURSIVE Pow(_, _)
Pow(b, e) == IF e = 0 THEN 1 ELSE b * Pow(b, e - 1)

\* min(backoff_base ** attempt, max_backoff), in tenths of a second
backoff_of(attempt) ==
    10 * (IF Pow(backoff_base, attempt) < max_backoff
            THEN Pow(backoff_base, attempt) ELSE max_backoff)

\* backoff * (0.8 + random.random() * 0.4): the factors 0.8, 1.0 and 1.2
JitterTenths == {8, 10, 12}

\* the test of line 99 with the last retry left out
is_last_attempt_early(attempt) == attempt = max_retries - 1

\* line 99: `if attempt == max_retries`
is_last_attempt(attempt) == attempt = max_retries

InitRetry ==
    /\ CoreIdle
    /\ temporal = NoTemporal
    /\ merge = NoMerge
    /\ retrieval = NoRetrieval
    /\ batch = NoBatch
    /\ \E plan \in [1..MaxCalls -> CallOutcomes] :
          retry = [NoRetry EXCEPT !.plan = plan]
    /\ startup = NoStartup
    /\ LateIdle

RetryUnchanged ==
    UNCHANGED <<lateVars, routerVars, task, safety, fusion, temporal, merge, retrieval, batch, startup>>

\* one iteration of `for attempt in range(max_retries + 1)`, lines 93-117,
\* up to the return, the raise or the start of the sleep; when the range is
\* exhausted, line 120 raises last_exception
Attempt ==
    /\ retry.state \in {"none", "awake"}
    /\ retry.attempts < MaxCalls
    /\ IF retry.attempt > max_retries
         THEN retry' = [retry EXCEPT !.state = "raised", !.error = "transport"]
         ELSE LET outcome == retry.plan[retry.attempts + 1]
              IN  CASE outcome = "ok" ->
                         retry' = [retry EXCEPT !.state = "returned",
                                                !.attempts = @ + 1]
                    [] outcome # "ok" /\ ~is_caught(outcome) ->
                         retry' = [retry EXCEPT !.state = "raised",
                                                !.attempts = @ + 1,
                                                !.error = "other",
                                                !.raised = outcome]
                    [] is_caught(outcome) /\ is_last_attempt(retry.attempt) ->
                         retry' = [retry EXCEPT !.state = "raised",
                                                !.attempts = @ + 1,
                                                !.error = "transport",
                                                !.raised = outcome]
                    [] is_caught(outcome) /\ ~is_last_attempt(retry.attempt) ->
                         \E j \in JitterTenths :
                            retry' = [retry EXCEPT
                                        !.state = "sleeping",
                                        !.attempts = @ + 1,
                                        !.sleeps = @ + 1,
                                        !.backoffs = Append(@, (backoff_of(retry.attempt) * j) \div 10)]
    /\ RetryUnchanged

\* `await asyncio.sleep(backoff)` is over; the loop goes to the next attempt
Wake ==
    /\ retry.state = "sleeping"
    /\ retry' = [retry EXCEPT !.state = "awake", !.attempt = @ + 1]
    /\ RetryUnchanged

NextRetry == Attempt \/ Wake

SpecRetry == InitRetry /\ [][NextRetry]_vars

-----------------------------------------------------------------------------
(* Claims about the retry policy *)

RetryOver == retry.state \in {"returned", "raised"}

AllTransport == retry.state = "raised" /\ retry.error = "transport"

\* C19 (as stated): a retried capability call performs at most 3 attempts
\* of the underlying network call in total; when every attempt fails with a
\* transport error, the error is surfaced after the last attempt with no
\* further attempt or sleep.
C19_AtMostThreeAttempts ==
    /\ retry.attempts <= 3
    /\ AllTransport => retry.sleeps = retry.attempts - 1

\* C19 (amended): a retried capability call performs at most 4 attempts of
\* the underlying network call in total, the first call and 3 retries; when
\* every attempt fails with a transport error, the error is surfaced after
\* the fourth attempt, 3 sleeps having been made, with no further attempt
\* or sleep.
C19_FirstCallPlusThreeRetries ==
    /\ retry.attempts <= max_retries + 1
    /\ retry.sleeps <= max_retries
    /\ AllTransport =>
          /\ retry.attempts = max_retries + 1
          /\ retry.sleeps = max_retries
    /\ RetryOver => retry.sleeps = retry.attempts - 1

\* once the call is over nothing more is attempted and nothing sleeps
C19_NothingAfterTheEnd ==
    [][RetryOver => UNCHANGED retry]_vars

C19_Witness ==
    /\ AllTransport
    /\ retry.attempts = 4
    /\ retry.sleeps = 3
    /\ \A i \in 1..4 : retry.plan[i] = "transport"


-----------------------------------------------------------------------------
(* Construction of the serving components and the safety bank file:
   GuardrailService.__init__ (src/brain/agent/guardrail.py) for the Agent,
   RuntimeInferencePipeline._load_artifacts (src/runtime/pipeline.py) *)

\* GuardrailService.__init__, lines 21-52: [state, error, bank]
GuardrailService_init(bank_file, queries_file) ==
    IF bank_file = None
      THEN [state |-> "failed", error |-> "FileNotFoundError", bank |-> None]
    ELSE IF ~queries_file
      THEN [state |-> "failed", error |-> "FileNotFoundError", bank |-> None]
    ELSE [state |-> "constructed", error |-> "", bank |-> bank_file]

\* RuntimeInferencePipeline.__init__ and _load_artifacts, lines 41-58: the
\* guard is built without vectors and the file is loaded only if it exists
RuntimeInferencePipeline_init(bank_file) ==
    [state |-> "constructed", error |-> "",
     bank |-> IF bank_file # None THEN bank_file ELSE None]

InitStartup ==
    /\ CoreIdle
    /\ temporal = NoTemporal
    /\ merge = NoMerge
    /\ retrieval = NoRetrieval
    /\ batch = NoBatch
    /\ retry = NoRetry
    /\ \E file \in {None} \cup {Some(b) : b \in SafetyBanks}, q \in BOOLEAN :
          startup = [NoStartup EXCEPT !.bank_file = file, !.queries_file = q]
    /\ LateIdle

StartupUnchanged ==
    UNCHANGED <<lateVars, routerVars, task, safety, fusion, temporal, merge, retrieval, batch, retry>>

Constructed(component, made) ==
    startup' = [startup EXCEPT !.component = component, !.state = made.state,
                               !.error = made.error, !.bank = made.bank]

\* Agent(llm_service): builds its GuardrailService
ConstructAgent ==
    /\ startup.component = "none"
    /\ Constructed("Agent",
                   GuardrailService_init(startup.bank_file, startup.queries_file))
    /\ StartupUnchanged

\* RuntimeInferencePipeline(llm_service, config)
ConstructPipeline ==
    /\ startup.component = "none"
    /\ Constructed("RuntimeInferencePipeline",
                   RuntimeInferencePipeline_init(startup.bank_file))
    /\ StartupUnchanged

\* the safety layer of the constructed component on one query: "safe",
\* "unsafe", "skip" (no check made) or "raise"
safety_verdict(component, bank, e) ==
    IF component = "Agent"
      THEN IF e.kind = "vector" THEN GuardrailService_check(bank[1], e.vec) ELSE "skip"
      ELSE LET r == SafetyGuard_check(IF bank = None THEN None ELSE bank[1],
                                      e, SAFETY_THRESHOLD)
           IN  IF r.outcome = "raise" THEN "raise"
               ELSE IF bank = None \/ e.kind # "vector" THEN "skip"
               ELSE IF r.is_safe THEN "safe" ELSE "unsafe"

\* Agent.process_query / RuntimeInferencePipeline.process_question on one
\* query: the query is answered unless the safety layer raises
AnswerQuery ==
    /\ startup.state = "constructed"
    /\ ~startup.answered
    /\ startup.verdict = "none"
    /\ \E e \in EmbeddingOutcomes :
          LET v == safety_verdict(startup.component, startup.bank, e)
          IN  startup' = [startup EXCEPT !.embedding = e, !.verdict = v,
                                         !.answered = (v # "raise")]
    /\ StartupUnchanged

NextStartup == ConstructAgent \/ ConstructPipeline \/ AnswerQuery

SpecStartup == InitStartup /\ [][NextStartup]_vars

-----------------------------------------------------------------------------
(* Claims about construction *)

\* C20: if the safety vector bank file is missing when the serving
\* component is constructed, construction fails with a configuration error,
\* so no query is ever answered by a component that has no loaded safety
\* bank.
C20_MissingBankFailsFast ==
    /\ (startup.component # "none" /\ startup.bank_file = None) =>
          (startup.state = "failed" /\ startup.error = "FileNotFoundError")
    /\ startup.answered => startup.bank # None

\* what the code keeps of C20: the Agent's GuardrailService fails fast
C20_GuardrailFailsFast ==
    startup.component = "Agent" =>
        /\ startup.bank_file = None =>
              (startup.state = "failed" /\ startup.error = "FileNotFoundError")
        /\ startup.answered => startup.bank # None

-----------------------------------------------------------------------------
(* SubmissionManager, src/submission_manager.py: a CSV file of records and
   a metadata file counting the submissions of each day *)

\* largest number of predictions in one submission
MaxPreds == 3
\* number of calls made on one manager
MaxOps == 3
\* number of days datetime.now() goes through
MaxDays == 2

\* SubmissionManager.MAX_RECORDS
MAX_RECORDS == 10
\* SubmissionManager.MAX_DAILY_SUBMISSIONS
MAX_DAILY_SUBMISSIONS == 5

\* JSON null as a Python value
PyNone == "<None>"

\* values the 'answer' key of a prediction dict may carry: a string, an
\* int, None, or no such key
PredictionAnswers == {"B", NonString, PyNone, Missing}

\* what csv.DictWriter writes for a value, and so what csv.DictReader gives
\* back: str(value), and '' for None and for a missing key (restval)
csv_field(v) ==
    CASE v = Missing   -> ""
      [] v = PyNone    -> ""
      [] v = NonString -> "7"
      [] OTHER         -> v

\* the row _write_records writes for one dict (the qid is a string, which
\* is written as it is)
csv_row(d) == [qid |-> d.qid, answer |-> csv_field(d.answer)]

csv_rows(ds) == [i \in DOMAIN ds |-> csv_row(ds[i])]

\* a row of the file as _read_records gives it back: a dict of strings
\* with exactly the keys qid and answer
as_dict(row) == [qid |-> row.qid, answer |-> row.answer, extra |-> FALSE]

_read_records(file) == [i \in DOMAIN file |-> as_dict(file[i])]

\* index of the first dict with a key that is not a fieldname, 0 if none
FirstExtra(ds) ==
    IF \E i \in DOMAIN ds : ds[i].extra
      THEN CHOOSE i \in DOMAIN ds : ds[i].extra /\ \A j \in 1..(i - 1) : ~ds[j].extra
      ELSE 0

\* _write_records, lines 116-121: the file is truncated, the header
\* written, then the rows one by one; DictWriter raises ValueError at the
\* first dict with an extra key, the rows before it being written
_write_records(ds) ==
    IF FirstExtra(ds) = 0
      THEN [outcome |-> "return", file |-> csv_rows(ds)]
      ELSE [outcome |-> "ValueError",
            file |-> csv_rows(SubSeq(ds, 1, FirstExtra(ds) - 1))]

\* metadata.get("daily_submissions", {}).get(today, 0)
get_daily_submission_count(daily_submissions, today) ==
    IF today \in DOMAIN daily_submissions THEN daily_submissions[today] ELSE 0

\* can_submit with the limit itself still allowed
can_submit_inclusive(count) == count <= MAX_DAILY_SUBMISSIONS

\* can_submit, line 98
can_submit(count) == count < MAX_DAILY_SUBMISSIONS

\* the rotation keeping the oldest records
rotate_keep_first(new_records) ==
    IF Len(new_records) > MAX_RECORDS
      THEN SubSeq(new_records, 1, MAX_RECORDS)
      ELSE new_records

\* lines 146-148: new_records[-MAX_RECORDS:] when there are too many
rotate(new_records) ==
    IF Len(new_records) > MAX_RECORDS
      THEN SubSeq(new_records, Len(new_records) - MAX_RECORDS + 1, Len(new_records))
      ELSE new_records

\* metadata["daily_submissions"][today] = value
set_count(daily_submissions, today, value) ==
    [d \in DOMAIN daily_submissions \cup {today} |->
        IF d = today THEN value ELSE daily_submissions[d]]

\* del metadata["daily_submissions"][today]
del_count(daily_submissions, today) ==
    [d \in DOMAIN daily_submissions \ {today} |-> daily_submissions[d]]

\* the predictions of one submission: fresh qids, one kind of answer
\* value, and possibly a last dict with a key besides qid and answer
Predictions(first, n, v, extra) ==
    [i \in 1..n |-> [qid |-> first + i - 1, answer |-> v,
                     extra |-> (extra /\ i = n)]]

TodayCount == get_daily_submission_count(submission.daily_submissions, submission.today)

\* numbers of records the file may hold when the manager is constructed
\* over it, and numbers of submissions already made today
InitialRecordCounts == {0, MAX_RECORDS - 1}
InitialDailyCounts == {0, MAX_DAILY_SUBMISSIONS - 1}

\* a manager constructed over the files earlier runs left (or over none),
\* and the kind of answer value its caller's predictions carry
InitSubmission ==
    /\ CoreIdle
    /\ AuxIdle
    /\ \E len \in InitialRecordCounts, count \in InitialDailyCounts,
          v \in PredictionAnswers :
          submission = [NoSubmission EXCEPT
                          !.records = [i \in 1..len |-> [qid |-> i, answer |-> "B"]],
                          !.next_qid = len + 1,
                          !.daily_submissions =
                              IF count = 0 THEN <<>> ELSE set_count(<<>>, 1, count),
                          !.answer_value = v]
    /\ dense_index = NoDenseIndex
    /\ chunking = NoChunking

SubmissionUnchanged == UNCHANGED <<routerVars, task, safety, fusion, auxVars, dense_index, chunking>>

Called(op, outcome, predictions) ==
    [submission EXCEPT !.ops = @ + 1, !.op = op, !.outcome = outcome,
                       !.predictions = predictions,
                       !.before_records = submission.records,
                       !.before_count = TodayCount]

\* add_submission(predictions), lines 123-175
AddSubmission ==
    /\ submission.ops < MaxOps
    /\ \E n \in 1..MaxPreds, extra \in BOOLEAN :
          LET predictions == Predictions(submission.next_qid, n,
                                         submission.answer_value, extra)
              new_records == rotate(_read_records(submission.records) \o predictions)
              written     == _write_records(new_records)
          IN  IF ~can_submit(TodayCount)
                THEN submission' = Called("add_submission", "RuntimeError", predictions)
              ELSE IF written.outcome # "return"
                THEN submission' =
                        [Called("add_submission", written.outcome, predictions)
                            EXCEPT !.records = written.file,
                                   !.next_qid = @ + n]
              ELSE submission' =
                      [Called("add_submission", "return", predictions)
                          EXCEPT !.records = written.file,
                                 !.next_qid = @ + n,
                                 !.daily_submissions =
                                     set_count(@, submission.today, TodayCount + 1)]
    /\ SubmissionUnchanged

\* clear_records(), lines 279-282
ClearRecords ==
    /\ submission.ops < MaxOps
    /\ submission' = [Called("clear_records", "return", <<>>)
                         EXCEPT !.records = _write_records(<<>>).file]
    /\ SubmissionUnchanged

\* reset_daily_quota(), lines 284-291
ResetDailyQuota ==
    /\ submission.ops < MaxOps
    /\ submission' = [Called("reset_daily_quota", "return", <<>>)
                         EXCEPT !.daily_submissions = del_count(@, submission.today)]
    /\ SubmissionUnchanged

\* midnight: _get_today_key() gives the next date from now on
NewDay ==
    /\ submission.ops < MaxOps
    /\ submission.today < MaxDays
    /\ submission' = [Called("new_day", "return", <<>>) EXCEPT !.today = @ + 1]
    /\ SubmissionUnchanged

NextSubmission == AddSubmission \/ ClearRecords \/ ResetDailyQuota \/ NewDay

SpecSubmission == InitSubmission /\ [][NextSubmission]_vars

-----------------------------------------------------------------------------
(* Claims about the submission manager *)

Min(a, b) == IF a < b THEN a ELSE b

LastN(s, n) == SubSeq(s, Len(s) - n + 1, Len(s))

Submitted == submission.op = "add_submission" /\ submission.outcome = "return"

\* C22: after a successful add_submission the file holds at most 10
\* records, and they are exactly the last min(10, n) of the previous
\* records followed by the new predictions (as the CSV stores them), in
\* order: the oldest records are rotated out first.
C22_Rotation ==
    Submitted =>
        LET all == submission.before_records \o csv_rows(submission.predictions)
        IN  /\ Len(submission.records) <= 10
            /\ submission.records = LastN(all, Min(10, Len(all)))

C22_Witness ==
    /\ Submitted
    /\ Len(submission.before_records) + Len(submission.predictions) > 10
    /\ submission.before_records # <<>>
    /\ submission.records[1] # submission.before_records[1]

-----------------------------------------------------------------------------
(* The router once the classification came back, with the capability's
   response kept: agent.py lines 119-173 *)

\* a query waiting for its classification (the embedding check found
\* nothing)
InitClassify ==
    /\ pc = "classifying"
    /\ \E opts \in OptionSets : options = opts
    /\ guardrail_result = [is_safe |-> TRUE, answer |-> PyStr("No checks performed")]
    /\ classification = NoClassification
    /\ result = NoResult
    /\ calls = <<"get_embedding", "generate:classification">>
    /\ task = NoTask
    /\ safety = NoSafety
    /\ fusion = NoFusion
    /\ AuxIdle
    /\ LateIdle

\* query_classification.invoke returns and the router dispatches, lines
\* 119-173 up to the next await; task keeps what generate() did
ClassifyAndDispatch ==
    /\ pc = "classifying"
    /\ \E c \in ClassOutcomes :
        LET cls == QueryClassificationService_invoke(c)
            to  == Agent_dispatch(cls)
        IN  /\ classification' = cls
            /\ task' = [NoTask EXCEPT !.name = "classification", !.generated = c]
            /\ IF to = "math"
               THEN /\ pc' = "math"
                    /\ calls' = Append(calls, "generate:math")
                    /\ result' = result
               ELSE /\ pc' = "done"
                    /\ calls' = calls
                    /\ result' = IF to = "default" THEN Return("A", "default")
                                 ELSE Raise(to)
    /\ UNCHANGED <<lateVars, auxVars, options, guardrail_result, safety, fusion>>

\* MathDone and Timeout with the kept response left alone
MathAnswered ==
    /\ pc = "math"
    /\ \E g \in GenOutcomes :
        result' = Return(MathTask_invoke(g, options), "task")
    /\ pc' = "done"
    /\ UNCHANGED <<lateVars, auxVars, options, guardrail_result, classification, calls, task, safety, fusion>>

NextClassify == ClassifyAndDispatch \/ MathAnswered \/ Timeout

SpecClassify == InitClassify /\ [][NextClassify]_vars

-----------------------------------------------------------------------------
(* Claims about the router's refusal and classification branches *)

RouterDone == pc = "done"

\* the refusal step gave no valid option: generate() raised, no JSON could
\* be parsed, or the named answer is not an option key
RefusalInvalid ==
    \/ guardrail_result.answer.type = "str"
    \/ guardrail_result.answer.type = "tuple" /\ ~guardrail_result.answer.ok
    \/ guardrail_result.answer.value \notin options

\* C23: when the embedding check finds the query unsafe and the refusal
\* step cannot produce a valid option, the router returns the
\* lexicographically-first option key.
C23_RefusalFallback ==
    (RouterDone /\ ~guardrail_result.is_safe /\ RefusalInvalid) =>
        (result.kind = "return" /\ result.answer = SortedFirst(options))

Count(s, x) == Cardinality({i \in DOMAIN s : s[i] = x})

\* C24: when classification returns category SAFETY, the router invokes
\* the refusal answer-selection step exactly once without computing or
\* comparing any embedding, and ends in DONE with an answer that is one of
\* the option keys.
C24_SafetyCategory ==
    (RouterDone /\ classification.category = "SAFETY") =>
        /\ Count(calls, "generate:safety") = 1
        /\ Count(calls, "get_embedding") = 1
        /\ result.kind = "return"
        /\ result.answer \in options

\* what the code keeps of C24: no second embedding is computed
C24_NoSecondEmbedding ==
    (RouterDone /\ classification.category = "SAFETY") =>
        Count(calls, "get_embedding") = 1

ClassificationFailed ==
    /\ task.name = "classification"
    /\ \/ task.generated.kind = "exception"
       \/ task.generated.json \in {"nojson", "invalid"}

\* C25: QueryClassificationService.invoke never raises; when the
\* classification capability raises or its output is unparseable, the
\* result has category RETRIEVAL (RAG) and domain GENERAL_KNOWLEDGE, and
\* the router then dispatches the retrieval branch with no category filter.
C25_ClassificationDefault ==
    ClassificationFailed =>
        /\ classification = DefaultClassification
        /\ result.kind # "raise"
        /\ result.via = "task"

\* what the code keeps of C25: the default classification itself
C25_DefaultOnFailure ==
    ClassificationFailed => classification = DefaultClassification

-----------------------------------------------------------------------------
(* The retried network call with the exception of its first attempt named *)

\* a call whose first attempt fails with one of the exceptions the wrapped
\* function can raise
InitRetryFailure ==
    /\ CoreIdle
    /\ temporal = NoTemporal
    /\ merge = NoMerge
    /\ retrieval = NoRetrieval
    /\ batch = NoBatch
    /\ \E f \in CallFailures, rest \in [2..MaxCalls -> CallOutcomes] :
          retry = [NoRetry EXCEPT
                     !.plan = [i \in 1..MaxCalls |-> IF i = 1 THEN f ELSE rest[i]]]
    /\ startup = NoStartup
    /\ LateIdle

SpecRetryFailure == InitRetryFailure /\ [][NextRetry]_vars

\* a connection or timeout error; an error status of the server is counted
\* with them
TransportErrors ==
    {"ClientConnectorError", "TimeoutError", "ClientResponseError", "transport"}

\* C26: the retry wrapper re-attempts the network call only after a
\* connection or timeout error; any other failure of the call (malformed
\* or unparseable response body, missing field, unexpected format)
\* propagates to the caller after exactly one attempt, with no sleep.
C26_OnlyTransportRetried ==
    \A i \in 1..retry.attempts :
        (retry.plan[i] # "ok" /\ retry.plan[i] \notin TransportErrors) =>
            /\ retry.attempts = i
            /\ retry.sleeps = i - 1
            /\ retry.state = "raised"

\* what the code keeps of C26: an exception outside aiohttp.ClientError,
\* asyncio.TimeoutError and ConnectionError ends the call at once
C26_UncaughtPropagates ==
    \A i \in 1..retry.attempts :
        (retry.plan[i] # "ok" /\ ~is_caught(retry.plan[i])) =>
            /\ retry.attempts = i
            /\ retry.sleeps = i - 1
            /\ retry.state = "raised"
            /\ retry.raised = retry.plan[i]

-----------------------------------------------------------------------------
(* LanceDBRetriever.retrieve when the native hybrid search raises *)

\* a store, a category filter, a query whose embedding succeeds or not, and
\* a hybrid search that raises
InitFallback ==
    /\ CoreIdle
    /\ temporal = NoTemporal
    /\ merge = NoMerge
    /\ \E category \in [Chunks -> StoreCategories], dense \in IterationOrders(Chunks),
          filter \in FilterLists, e \in {"vector", "exception"},
          h \in HybridSearchOutcomes \ {"ok"} :
          retrieval = [NoRetrieval EXCEPT
                         !.category = category,
                         !.window = [c \in Chunks |-> [valid_from |-> 2024, expire_at |-> 9999]],
                         !.dense = dense, !.filter = filter, !.embedding = e,
                         !.hybrid = h]
    /\ batch = NoBatch
    /\ retry = NoRetry
    /\ startup = NoStartup
    /\ LateIdle

SpecFallback == InitFallback /\ [][NextRetrieve]_vars

HybridRaised ==
    /\ retrieval.impl = "LanceDBRetriever"
    /\ ~retrieval.via_task
    /\ retrieval.hybrid # "ok"
    /\ retrieval.embedding = "vector"

\* the rows of the vector search restricted to the filter, best first
FilteredDense ==
    IF Present(retrieval.filter)
      THEN SelectSeq(retrieval.dense, InFilter)
      ELSE retrieval.dense

\* C27: if the library-native hybrid search raises at runtime,
\* LanceDBRetriever.retrieve does not raise: it runs the fallback search
\* restricted to the same category filter and returns that search's
\* results (up to top_k).
C27_FallbackNeverRaises ==
    HybridRaised =>
        /\ retrieval.retriever_outcome = "return"
        /\ Len(retrieval.results) <= retrieval.top_k
        /\ retrieval.results = Take(FilteredDense, retrieval.top_k)

\* what the code keeps of C27: when the failure is the hybrid path's own,
\* the filtered vector search answers
C27_FallbackOnHybridOnlyFailure ==
    (HybridRaised /\ retrieval.hybrid = "hybrid_only") =>
        /\ retrieval.retriever_outcome = "return"
        /\ Len(retrieval.results) <= retrieval.top_k
        /\ retrieval.results = Take(FilteredDense, retrieval.top_k)

-----------------------------------------------------------------------------
(* Claims about the minimum-relevance post-filter *)

\* the engine searched and one chunk, temporally valid, heads both the
\* sparse and the dense list handed to the fusion
FirstInBothLists ==
    /\ retrieval.impl = "HybridSearchEngine"
    /\ retrieval.bm25_results # <<>>
    /\ retrieval.faiss_results # <<>>
    /\ Head(retrieval.bm25_results) = Head(retrieval.faiss_results)

\* C28: with the default constants (k = 60, weights 0.6/0.4, minimum
\* relevance 0.3), a temporally valid chunk ranked first in both the sparse
\* and the dense list passes the minimum-relevance post-filter, so
\* HybridSearchEngine.search returns a non-empty result set containing it.
C28_FirstInBothListsIsReturned ==
    FirstInBothLists =>
        /\ retrieval.results # <<>>
        /\ Head(retrieval.bm25_results) \in SetOf(retrieval.results)

\* what the code does: the best fused score, (0.6 + 0.4) / 61, is below
\* 0.3, so the post-filter of lines 85-88 keeps nothing
C28_PostFilterKeepsNothing ==
    retrieval.impl = "HybridSearchEngine" => retrieval.results = <<>>

-----------------------------------------------------------------------------
(* FAISSIndex.save and FAISSIndex.load *)

\* a file name is the sequence of its dot-separated parts: faiss.index is
\* <<"faiss", "index">>
IndexNames == {<<"faiss">>, <<"faiss", "index">>, <<"faiss", "v2", "index">>}

\* the directories an index is saved to
IndexDirs == {"data/index", "backup"}

\* Path.with_suffix: the last part, when the name has more than one, is
\* replaced by the new suffix; a name of one part gets the suffix appended
with_suffix(name, suffix) ==
    IF Len(name) > 1 THEN SubSeq(name, 1, Len(name) - 1) \o suffix
    ELSE name \o suffix

\* save, line 163: Path(path).with_suffix('.embeddings.npy')
save_embeddings_name(name) == with_suffix(name, <<"embeddings", "npy">>)

\* load, line 176: Path(path).parent / f"{Path(path).name}.embeddings.npy"
load_embeddings_name(name) == name \o <<"embeddings", "npy">>

\* from_directory, line 272: index_path / "faiss.index"
from_directory_name == <<"faiss", "index">>

\* search_with_filter on an index whose embeddings are present or not
FAISSIndex_search_with_filter(dense, embeddings, valid, top_k) ==
    IF ~embeddings
    THEN [outcome |-> "raise", results |-> <<>>]
    ELSE [outcome |-> "return",
          results |-> Take(Restrict(dense, valid), Min(top_k, Cardinality(valid)))]

\* an index built from embeddings (build keeps a copy of them), to be saved
\* under a path
InitDense ==
    /\ CoreIdle
    /\ AuxIdle
    /\ submission = NoSubmission
    /\ chunking = NoChunking
    /\ \E d \in IndexDirs, n \in IndexNames, dense \in IterationOrders(Chunks) :
          dense_index = [NoDenseIndex EXCEPT !.state = "built", !.dir = d,
                                             !.name = n, !.dense = dense,
                                             !.embeddings = TRUE]

DenseUnchanged == UNCHANGED <<routerVars, task, safety, fusion, auxVars,
                              submission, chunking>>

\* index.save(path): the index file and, next to it, the embedding matrix
Save ==
    /\ dense_index.state = "built"
    /\ dense_index' = [dense_index EXCEPT
                         !.state = "saved",
                         !.files = {dense_index.name,
                                    save_embeddings_name(dense_index.name)}]
    /\ DenseUnchanged

\* FAISSIndex.load(path) with the path given to save
Load ==
    /\ dense_index.state = "saved"
    /\ dense_index.name \in dense_index.files
    /\ dense_index' = [dense_index EXCEPT
                         !.state = "loaded",
                         !.embeddings =
                             load_embeddings_name(dense_index.name) \in dense_index.files]
    /\ DenseUnchanged

\* HybridRetriever.from_directory(index_dir) on the directory the index was
\* saved to as faiss.index
FromDirectory ==
    /\ dense_index.state = "saved"
    /\ dense_index.name = from_directory_name
    /\ from_directory_name \in dense_index.files
    /\ \E category \in [Chunks -> StoreCategories] :
          dense_index' = [dense_index EXCEPT
                            !.state = "loaded", !.via_retriever = TRUE,
                            !.category = category,
                            !.embeddings =
                                load_embeddings_name(from_directory_name)
                                    \in dense_index.files]
    /\ DenseUnchanged

\* search_with_filter(query_embedding, valid_indices, top_k) on the loaded
\* index
SearchWithFilter ==
    /\ dense_index.state = "loaded"
    /\ ~dense_index.via_retriever
    /\ \E valid \in SUBSET Chunks \ {{}}, top_k \in TopKs :
          LET r == FAISSIndex_search_with_filter(dense_index.dense,
                                                 dense_index.embeddings, valid, top_k)
          IN  dense_index' = [dense_index EXCEPT
                                !.state = "searched", !.valid_indices = valid,
                                !.top_k = top_k, !.outcome = r.outcome,
                                !.results = r.results]
    /\ DenseUnchanged

\* retrieve(query, top_k, categories_filter=[a category of the corpus]) on
\* the retriever loaded from the directory
FilteredRetrieve ==
    /\ dense_index.state = "loaded"
    /\ dense_index.via_retriever
    /\ \E top_k \in TopKs, cat \in StoreCategories :
          /\ \E c \in Chunks : dense_index.category[c] = cat
          /\ LET r == HybridRetriever_retrieve(dense_index.category, dense_index.dense,
                                               dense_index.embeddings, Some(<<cat>>),
                                               "vector", top_k)
             IN  dense_index' = [dense_index EXCEPT
                                   !.state = "searched",
                                   !.valid_indices =
                                       {c \in Chunks : dense_index.category[c] = cat},
                                   !.top_k = top_k, !.outcome = r.outcome,
                                   !.results = r.results]
    /\ DenseUnchanged

NextDense == Save \/ Load \/ FromDirectory \/ SearchWithFilter \/ FilteredRetrieve

SpecDense == InitDense /\ [][NextDense]_vars

\* C29: round trip of the dense index: for an index built from embeddings,
\* save(path) followed by FAISSIndex.load(path) finds and reloads the stored
\* embedding matrix, so search_with_filter on the loaded index succeeds and
\* a category-filtered retrieve on a retriever loaded from disk does not
\* raise.
C29_RoundTrip ==
    /\ dense_index.state = "loaded" => dense_index.embeddings
    /\ dense_index.state = "searched" => dense_index.outcome = "return"

\* what the code keeps of C29: a path whose name has no suffix is saved and
\* looked up under one name
C29_RoundTripWithoutSuffix ==
    Len(dense_index.name) = 1 =>
        /\ dense_index.state = "loaded" => dense_index.embeddings
        /\ dense_index.state = "searched" => dense_index.outcome = "return"

\* and a path whose name has a suffix, as from_directory's has, never finds
\* the matrix again
C29_SuffixLosesEmbeddings ==
    (Len(dense_index.name) > 1 /\ dense_index.state = "searched") =>
        dense_index.outcome = "raise"

-----------------------------------------------------------------------------
(* TextCleaner.chunk_text *)

\* the longest short text
MaxText == 6

\* chunk_text's defaults and the look-back of the sentence break
DEFAULT_CHUNK_SIZE == 512
DEFAULT_OVERLAP == 128
BREAK_WINDOW == 50

\* a text longer than the default chunk size
LongText == 600

\* a text is its length and the positions (from 0) of its '.' and '\n'
ShortTexts ==
    {[len |-> n, breaks |-> b] : n \in 0..MaxText, b \in SUBSET (0..(MaxText - 1))}

LongTexts ==
    {[len |-> LongText, breaks |-> b] :
        b \in SUBSET {DEFAULT_CHUNK_SIZE - BREAK_WINDOW - 1, DEFAULT_CHUNK_SIZE - 2}}

\* the calls: short texts with every chunk size and overlap below it, long
\* texts with the defaults
ChunkCalls ==
    {[text |-> t, chunk_size |-> cs, overlap |-> o] :
        t \in {x \in ShortTexts : \A b \in x.breaks : b < x.len},
        cs \in 1..(MaxText - 2), o \in 0..(MaxText - 3)}
    \cup {[text |-> t, chunk_size |-> DEFAULT_CHUNK_SIZE, overlap |-> o] :
            t \in LongTexts, o \in {0, DEFAULT_OVERLAP}}

\* str.rfind(ch, lo, hi): a negative lo counts from the end of the text
rfind_lo(lo, len) ==
    IF lo >= 0 THEN lo ELSE IF lo + len >= 0 THEN lo + len ELSE 0

\* max(text.rfind('.', end - 50, end), text.rfind('\n', end - 50, end))
last_break(breaks, end, len) ==
    LET lo == rfind_lo(end - BREAK_WINDOW, len)
        s  == {b \in breaks : lo <= b /\ b < end}
    IN  IF s = {} THEN -1 ELSE CHOOSE b \in s : \A c \in s : c <= b

\* lines 139-150: the end of the chunk that starts at start
chunk_end(c) ==
    LET end == Min(c.start + c.chunk_size, c.text_len)
        lb  == last_break(c.breaks, end, c.text_len)
    IN  IF end < c.text_len /\ lb > c.start THEN lb + 1 ELSE end

\* line 155: start = end - overlap
next_start(c) == chunk_end(c) - c.overlap

InitChunking ==
    /\ CoreIdle
    /\ AuxIdle
    /\ submission = NoSubmission
    /\ dense_index = NoDenseIndex
    /\ \E call \in ChunkCalls :
          /\ call.overlap < call.chunk_size
          /\ chunking = [NoChunking EXCEPT
                           !.state = "ready", !.text_len = call.text.len,
                           !.breaks = call.text.breaks,
                           !.chunk_size = call.chunk_size,
                           !.overlap = call.overlap]

ChunkingUnchanged == UNCHANGED <<routerVars, task, safety, fusion, auxVars,
                                 submission, dense_index>>

\* chunk_text(text, chunk_size, overlap) up to the loop: a text that fits in
\* one chunk is returned as it is
ChunkTextCall ==
    /\ chunking.state = "ready"
    /\ chunking' = IF chunking.text_len <= chunking.chunk_size
                   THEN [chunking EXCEPT !.state = "returned", !.appended = 1]
                   ELSE [chunking EXCEPT !.state = "looping", !.start = 0]
    /\ ChunkingUnchanged

\* one iteration of `while start < len(text)`; the loop is deterministic,
\* so an iteration that begins where an earlier one began repeats for ever
ChunkTextIteration ==
    /\ chunking.state = "looping"
    /\ chunking.start < chunking.text_len
    /\ chunking' = [chunking EXCEPT
                      !.state = IF next_start(chunking) \in
                                       chunking.visited \cup {chunking.start}
                                THEN "diverged" ELSE "looping",
                      !.prev_start = chunking.start,
                      !.start = next_start(chunking),
                      !.visited = chunking.visited \cup {chunking.start},
                      !.appended = chunking.appended + 1]
    /\ ChunkingUnchanged

\* the loop ends and the chunks are returned
ChunkTextReturn ==
    /\ chunking.state = "looping"
    /\ chunking.start >= chunking.text_len
    /\ chunking' = [chunking EXCEPT !.state = "returned"]
    /\ ChunkingUnchanged

NextChunking == ChunkTextCall \/ ChunkTextIteration \/ ChunkTextReturn

SpecChunking == InitChunking /\ [][NextChunking]_vars

\* an iteration of the loop has run
Iterated == chunking.state \in {"looping", "diverged", "returned"} /\ chunking.visited # {}

\* C30: TextCleaner.chunk_text terminates for every text and every overlap
\* with 0 <= overlap < chunk_size (including the defaults 512/128 and texts
\* longer than chunk_size), returning finitely many chunks; the start
\* position strictly advances on every loop iteration.
C30_ChunkTextTerminates ==
    /\ chunking.state # "diverged"
    /\ Iterated => chunking.start > chunking.prev_start

\* what the code keeps of C30: without overlap the start advances on every
\* iteration and the loop ends
C30_TerminatesWithoutOverlap ==
    chunking.overlap = 0 =>
        /\ chunking.state # "diverged"
        /\ Iterated => chunking.start > chunking.prev_start

\* with an overlap, a text longer than chunk_size never leaves the loop:
\* once end is len(text), start stays at len(text) - overlap
C30_OverlapNeverReturns ==
    (chunking.overlap > 0 /\ chunking.text_len > chunking.chunk_size) =>
        chunking.state # "returned"

====
